---- MODULE Spec2Model ----
(***************************************************************************)
(* Module_03_Resilient_Software: the four Rust safety programs.            *)
(*                                                                         *)
(*   thread_safe.rs  -> Spec, FairSpec (main and the threads it spawns)    *)
(*   buffer_safe.rs  -> SpecBuffer     (the checked access arr.get(i))     *)
(*                      SpecCopy       (the clamped copy into the buffer)  *)
(*   option_safe.rs  -> SpecOption     (find_resource_by_id and its match) *)
(*                      SpecResult     (try_create_resource, its callers)  *)
(*   memory_safe.rs  -> SpecMemory     (main, statement by statement)      *)
(*                                                                         *)
(* The programs are independent: each specification runs one of them and   *)
(* leaves the variables of the others at their idle values.                *)
(*                                                                         *)
(* Every spawned thread is a process with a program counter pc[t]; main is *)
(* the process with program counter mpc.  One action is one statement (or  *)
(* one library call) of the source.  thread::sleep is a step that takes an *)
(* arbitrary time: it orders nothing.                                      *)
(***************************************************************************)
EXTENDS Integers, Sequences, FiniteSets, TLC

(***************************************************************************)
(* Bounds of the model.                                                    *)
(***************************************************************************)
\* num_threads is drawn from 0..MaxThreads (10 in the program)
MaxThreads == 3
\* increments_per_thread is drawn from 0..MaxIncrements (1000 in the program)
MaxIncrements == 2

(***************************************************************************)
(* Program constants of thread_safe.rs.                                    *)
(***************************************************************************)
WriterIters == 10
ReaderIters == 5
NumReaders == 3
NumMessages == 5
NumAtomicThreads == 5

VARIABLES
    \* ---- thread_safe.rs ----
    mpc,                    \* main's position
    mi,                     \* main's loop index (spawn and join loops)
    panicked,               \* a thread or main panicked (assert_eq!, unwrap)
    pc,                     \* position of every spawned thread
    ti,                     \* loop index / local of every spawned thread
    num_threads, increments_per_thread,
    count,                  \* SafeCounter.count
    actual, expected,       \* locals of demonstrate_counter_safety
    shared,                 \* SharedData behind the Mutex
    mutex_owner,            \* who holds the Mutex guard
    printed,                \* the last two outputs of print_stats, in order
    rw_data,                \* the Vec behind the RwLock
    rw_readers,             \* who holds a read guard
    rw_writer,              \* the write guard is held
    rw_pending,             \* write() has been called and has not returned
    rw_policy,              \* what the platform's RwLock does with a reader
                            \* that arrives while a writer waits
    chan,                   \* messages in the channel
    sender_alive,           \* the Sender has not been dropped
    receiver_alive,         \* the Receiver has not been dropped
    sent,                   \* every message sent so far, in order
    received,               \* every message the consumer printed, in order
    sc_data,                \* data of demonstrate_scoped_threads
    sc_seen,                \* what the scoped reader printed
    a_counter, a_flag,      \* demonstrate_atomic_operations
    ct_data, ct_owner,      \* demonstrate_compile_time_safety: Vec and Mutex
    \* ---- buffer_safe.rs ----
    b_pc,                   \* position in the bounds demonstration
    arr,                    \* the fixed-length container
    idx,                    \* the index asked for
    got,                    \* what arr.get(idx) returned
    b_out,                  \* what the match on it printed
    c_pc,                   \* position in demonstrate_buffer_safety
    buffer,                 \* the fixed-length destination
    input,                  \* the bytes of the input string
    copy_len,               \* how many bytes the copy takes
    c_j,                    \* how many bytes the copy has moved
    c_read,                 \* the positions of input the copy read
    c_written,              \* the positions of buffer the copy wrote
    dynamic_buffer,         \* the Vec<u8> that grows to fit
    c_out,                  \* what the function printed
    \* ---- option_safe.rs ----
    o_pc,                   \* position in the lookup demonstration
    resources,              \* the Vec<Resource> searched
    target_id,              \* the id searched for
    found,                  \* what find_resource_by_id returned
    processed,              \* the resources process() was called on
    o_out,                  \* what the match on the result printed
    r_pc,                   \* position in demonstrate_result_safety
    r_site,                 \* which of its three calls is made
    r_id, r_name,           \* the arguments of try_create_resource
    r_result,               \* the Result it returned
    r_resource,             \* the Resource the caller holds
    r_log,                  \* the narration, in order
    \* ---- memory_safe.rs ----
    m_pc,                   \* the statement of Program main is at
    m_depth,                \* how many scopes are open
    m_env,                  \* the bindings in scope, in declaration order
    m_heap,                 \* every DataHolder: value, owners, state
    m_log,                  \* the narration, in order
    m_i,                    \* the position of the for loop over the Vec
    m_fault                 \* a binding was used after it was moved from

mainVars == <<mpc, mi, panicked>>
thrVars == <<pc, ti>>
counterVars == <<num_threads, increments_per_thread, count, actual, expected>>
mutexVars == <<shared, mutex_owner, printed>>
rwVars == <<rw_data, rw_readers, rw_writer, rw_pending, rw_policy>>
chanVars == <<chan, sender_alive, receiver_alive, sent, received>>
scopedVars == <<sc_data, sc_seen>>
atomicVars == <<a_counter, a_flag>>
ctVars == <<ct_data, ct_owner>>
threadProgVars == <<mainVars, thrVars, counterVars, mutexVars, rwVars,
                    chanVars, scopedVars, atomicVars, ctVars>>
bufferVars == <<b_pc, arr, idx, got, b_out>>
copyVars == <<c_pc, buffer, input, copy_len, c_j, c_read, c_written,
              dynamic_buffer, c_out>>
optionVars == <<o_pc, resources, target_id, found, processed, o_out>>
resultVars == <<r_pc, r_site, r_id, r_name, r_result, r_resource, r_log>>
\* the programs other than thread_safe.rs
memoryVars == <<m_pc, m_depth, m_env, m_heap, m_log, m_i, m_fault>>
otherProgs == <<bufferVars, copyVars, optionVars, resultVars, memoryVars>>
otherThanBounds == <<threadProgVars, copyVars, optionVars, resultVars,
                     memoryVars>>
otherThanCopy == <<threadProgVars, bufferVars, optionVars, resultVars,
                   memoryVars>>
otherThanFind == <<threadProgVars, bufferVars, copyVars, resultVars,
                   memoryVars>>
otherThanResult == <<threadProgVars, bufferVars, copyVars, optionVars,
                     memoryVars>>
\* everything a demonstration does not own
exCounter == <<mutexVars, rwVars, chanVars, scopedVars, atomicVars, ctVars,
               otherProgs>>
exMutex == <<counterVars, rwVars, chanVars, scopedVars, atomicVars, ctVars,
             otherProgs>>
exRw == <<counterVars, mutexVars, chanVars, scopedVars, atomicVars, ctVars,
          otherProgs>>
exChan == <<counterVars, mutexVars, rwVars, scopedVars, atomicVars, ctVars,
            otherProgs>>
exScoped == <<counterVars, mutexVars, rwVars, chanVars, atomicVars, ctVars,
              otherProgs>>
exAtomic == <<counterVars, mutexVars, rwVars, chanVars, scopedVars, ctVars,
              otherProgs>>
exCt == <<counterVars, mutexVars, rwVars, chanVars, scopedVars, atomicVars,
          otherProgs>>
allDemoVars == <<counterVars, mutexVars, rwVars, chanVars, scopedVars,
                 atomicVars, ctVars, otherProgs>>
vars == <<threadProgVars, bufferVars, copyVars, optionVars, resultVars,
          memoryVars>>

(***************************************************************************)
(* Threads.                                                                *)
(***************************************************************************)
T(kind, i) == <<kind, i>>
Workers == {T("worker", i) : i \in 0..MaxThreads}
RwReaders == {T("rw_reader", i) : i \in 0..(NumReaders - 1)}
AtomicThreads == {T("atomic", i) : i \in 0..(NumAtomicThreads - 1)}
Threads == Workers \cup {T("writer", 0), T("reader", 0)}
           \cup RwReaders \cup {T("rw_writer", 0)}
           \cup {T("send_sync", 0)}
           \cup {T("producer", 0), T("consumer", 0)}
           \cup {T("scoped_reader", 0)}
           \cup AtomicThreads
           \cup {T("compile_time", 0)}
Main == T("main", 0)

Range(s) == {s[i] : i \in 1..Len(s)}

RECURSIVE SumSeq(_)
SumSeq(s) == IF s = <<>> THEN 0 ELSE s[1] + SumSeq(Tail(s))

\* 0..n-1 as a sequence: the values a `for i in 0..n` loop has produced
UpTo(n) == [i \in 1..n |-> i - 1]

(***************************************************************************)
(* SafeCounter (thread_safe.rs:15-34).  The values stay far below i32::MAX *)
(* within the bounds, so the wrap-around of fetch_add never happens.       *)
(***************************************************************************)
SafeCounterNew == 0

fetch_add(c, d) == c + d

increment(c) == fetch_add(c, 1)

get_count(c) == c

(***************************************************************************)
(* SharedData (thread_safe.rs:37-68).                                      *)
(***************************************************************************)
SharedDataNew == [data |-> <<>>, sum |-> 0, processing |-> FALSE]

\* what print_stats prints
print_stats(d) == [size |-> Len(d.data), sum |-> d.sum,
                   processing |-> d.processing, data |-> d.data]

\* the console keeps the last two outputs of print_stats
Console(log, line) ==
    IF Len(log) < 2 THEN Append(log, line) ELSE <<log[2], line>>

(***************************************************************************)
(* Init: the state when main starts.                                       *)
(***************************************************************************)
ThreadProgInit ==
    /\ mpc = "counter_new"
    /\ mi = 0
    /\ panicked = FALSE
    /\ pc = [t \in Threads |-> "none"]
    /\ ti = [t \in Threads |-> 0]
    /\ num_threads \in 0..MaxThreads
    /\ increments_per_thread \in 0..MaxIncrements
    /\ count = 0
    /\ actual = 0
    /\ expected = 0
    /\ shared = SharedDataNew
    /\ mutex_owner = "none"
    /\ printed = <<>>
    /\ rw_data = <<>>
    /\ rw_readers = {}
    /\ rw_writer = FALSE
    /\ rw_pending = FALSE
    /\ rw_policy = "unset"
    /\ chan = <<>>
    /\ sender_alive = FALSE
    /\ receiver_alive = FALSE
    /\ sent = <<>>
    /\ received = <<>>
    /\ sc_data = <<>>
    /\ sc_seen = <<>>
    /\ a_counter = 0
    /\ a_flag = FALSE
    /\ ct_data = <<>>
    /\ ct_owner = "none"

\* thread_safe.rs is not running
ThreadProgIdle ==
    /\ mpc = "idle"
    /\ mi = 0
    /\ panicked = FALSE
    /\ pc = [t \in Threads |-> "none"]
    /\ ti = [t \in Threads |-> 0]
    /\ num_threads = 0
    /\ increments_per_thread = 0
    /\ count = 0
    /\ actual = 0
    /\ expected = 0
    /\ shared = SharedDataNew
    /\ mutex_owner = "none"
    /\ printed = <<>>
    /\ rw_data = <<>>
    /\ rw_readers = {}
    /\ rw_writer = FALSE
    /\ rw_pending = FALSE
    /\ rw_policy = "unset"
    /\ chan = <<>>
    /\ sender_alive = FALSE
    /\ receiver_alive = FALSE
    /\ sent = <<>>
    /\ received = <<>>
    /\ sc_data = <<>>
    /\ sc_seen = <<>>
    /\ a_counter = 0
    /\ a_flag = FALSE
    /\ ct_data = <<>>
    /\ ct_owner = "none"

\* buffer_safe.rs is not running
BufferIdle ==
    /\ b_pc = "idle"
    /\ arr = <<>>
    /\ idx = 0
    /\ got = [some |-> FALSE, value |-> 0]
    /\ b_out = <<>>

\* demonstrate_buffer_safety is not running
CopyIdle ==
    /\ c_pc = "idle"
    /\ buffer = <<>>
    /\ input = <<>>
    /\ copy_len = 0
    /\ c_j = 0
    /\ c_read = {}
    /\ c_written = {}
    /\ dynamic_buffer = <<>>
    /\ c_out = <<>>

\* option_safe.rs is not running
OptionIdle ==
    /\ o_pc = "idle"
    /\ resources = <<>>
    /\ target_id = 0
    /\ found = [some |-> FALSE, at |-> 0]
    /\ processed = <<>>
    /\ o_out = <<>>

\* demonstrate_result_safety is not running
ResultIdle ==
    /\ r_pc = "idle"
    /\ r_site = ""
    /\ r_id = 0
    /\ r_name = ""
    /\ r_result = [ok |-> FALSE, id |-> 0, name |-> "", err |-> ""]
    /\ r_resource = [some |-> FALSE, id |-> 0, name |-> ""]
    /\ r_log = <<>>

\* memory_safe.rs is not running
MemoryIdle ==
    /\ m_pc = 0
    /\ m_depth = 0
    /\ m_env = <<>>
    /\ m_heap = <<>>
    /\ m_log = <<>>
    /\ m_i = 0
    /\ m_fault = FALSE

Init ==
    /\ ThreadProgInit
    /\ BufferIdle /\ CopyIdle
    /\ OptionIdle /\ ResultIdle
    /\ MemoryIdle

(***************************************************************************)
(* demonstrate_counter_safety (thread_safe.rs:70-103).                     *)
(***************************************************************************)
\* let counter = Arc::new(SafeCounter::new()); let mut handles = vec![]
CounterNew ==
    /\ mpc = "counter_new"
    /\ count' = SafeCounterNew
    /\ mpc' = "counter_spawn"
    /\ mi' = 0
    /\ UNCHANGED <<panicked, thrVars, num_threads, increments_per_thread,
                   actual, expected, exCounter>>

\* for _ in 0..num_threads { handles.push(thread::spawn(..)) }
CounterSpawn ==
    /\ mpc = "counter_spawn"
    /\ IF mi < num_threads
       THEN /\ pc' = [pc EXCEPT ![T("worker", mi)] = "run"]
            /\ mi' = mi + 1
            /\ mpc' = mpc
       ELSE /\ mpc' = "counter_join"
            /\ mi' = 0
            /\ pc' = pc
    /\ UNCHANGED <<panicked, ti, counterVars, exCounter>>

\* a load followed by a store instead of one fetch_add: the store may write
\* the successor of a value loaded before other workers' increments
WorkerIncrementRacy(w) ==
    /\ pc[w] = "run"
    /\ ti[w] < increments_per_thread
    /\ \E stale \in 0..count : count' = increment(stale)
    /\ ti' = [ti EXCEPT ![w] = ti[w] + 1]
    /\ UNCHANGED <<mainVars, pc, num_threads, increments_per_thread,
                   actual, expected, exCounter>>

\* the worker's loop body: counter_clone.increment()
WorkerIncrement(w) ==
    /\ pc[w] = "run"
    /\ ti[w] < increments_per_thread
    /\ count' = increment(count)
    /\ ti' = [ti EXCEPT ![w] = ti[w] + 1]
    /\ UNCHANGED <<mainVars, pc, num_threads, increments_per_thread,
                   actual, expected, exCounter>>

\* the worker's loop ends and the closure returns
WorkerExit(w) ==
    /\ pc[w] = "run"
    /\ ti[w] >= increments_per_thread
    /\ pc' = [pc EXCEPT ![w] = "done"]
    /\ UNCHANGED <<mainVars, ti, counterVars, exCounter>>

\* for handle in handles { handle.join().unwrap() }
CounterJoin ==
    /\ mpc = "counter_join"
    /\ IF mi < num_threads
       THEN /\ pc[T("worker", mi)] = "done"
            /\ mi' = mi + 1
            /\ mpc' = mpc
       ELSE /\ mpc' = "counter_check"
            /\ mi' = 0
    /\ UNCHANGED <<panicked, thrVars, counterVars, exCounter>>

\* let expected = ..; let actual = counter.get_count()
CounterCheck ==
    /\ mpc = "counter_check"
    /\ expected' = num_threads * increments_per_thread
    /\ actual' = get_count(count)
    /\ mpc' = "counter_assert"
    /\ UNCHANGED <<mi, panicked, thrVars, num_threads, increments_per_thread,
                   count, exCounter>>

\* assert_eq!(actual, expected, ..)
CounterAssert ==
    /\ mpc = "counter_assert"
    /\ IF actual = expected
       THEN /\ mpc' = "counter_return"
            /\ panicked' = FALSE
       ELSE /\ mpc' = "assert_failed"
            /\ panicked' = TRUE
    /\ UNCHANGED <<mi, thrVars, counterVars, exCounter>>

\* the function returns: its locals (the Arc, the handles) are gone
CounterReturn ==
    /\ mpc = "counter_return"
    /\ mpc' = "mutex_new"
    /\ pc' = [t \in Threads |-> "none"]
    /\ ti' = [t \in Threads |-> 0]
    /\ num_threads' = 0
    /\ increments_per_thread' = 0
    /\ count' = 0
    /\ actual' = 0
    /\ expected' = 0
    /\ UNCHANGED <<mi, panicked, exCounter>>

(***************************************************************************)
(* demonstrate_mutex_safety (thread_safe.rs:105-140).                      *)
(***************************************************************************)
Writer == T("writer", 0)
Reader == T("reader", 0)

\* a lock that excludes nobody
can_lock_unguarded(owner) == TRUE

\* Mutex::lock returns only when nobody holds the guard
can_lock(owner) == owner = "none"

\* let shared_data = Arc::new(Mutex::new(SharedData::new()))
MutexNew ==
    /\ mpc = "mutex_new"
    /\ shared' = SharedDataNew
    /\ mutex_owner' = "none"
    /\ printed' = <<>>
    /\ mpc' = "mutex_spawn_writer"
    /\ UNCHANGED <<mi, panicked, thrVars, exMutex>>

\* let writer = thread::spawn(..)
MutexSpawnWriter ==
    /\ mpc = "mutex_spawn_writer"
    /\ pc' = [pc EXCEPT ![Writer] = IF 0 < WriterIters THEN "lock" ELSE "done"]
    /\ ti' = [ti EXCEPT ![Writer] = 0]
    /\ mpc' = "mutex_spawn_reader"
    /\ UNCHANGED <<mi, panicked, exMutex, mutexVars>>

\* let reader = thread::spawn(..)
MutexSpawnReader ==
    /\ mpc = "mutex_spawn_reader"
    /\ pc' = [pc EXCEPT ![Reader] = IF 0 < ReaderIters THEN "lock" ELSE "done"]
    /\ ti' = [ti EXCEPT ![Reader] = 0]
    /\ mpc' = "mutex_join_writer"
    /\ UNCHANGED <<mi, panicked, exMutex, mutexVars>>

\* let mut data = shared_data_writer.lock().unwrap()
WriterLock ==
    /\ pc[Writer] = "lock"
    /\ can_lock(mutex_owner)
    /\ mutex_owner' = "writer"
    /\ pc' = [pc EXCEPT ![Writer] = "push"]
    /\ UNCHANGED <<mainVars, ti, exMutex, shared, printed>>

\* add_value: self.data.push(value)
WriterPush ==
    /\ pc[Writer] = "push"
    /\ shared' = [shared EXCEPT !.data = Append(@, ti[Writer])]
    /\ pc' = [pc EXCEPT ![Writer] = "sum"]
    /\ UNCHANGED <<mainVars, ti, exMutex, mutex_owner, printed>>

\* add_value: self.sum += value
WriterSum ==
    /\ pc[Writer] = "sum"
    /\ shared' = [shared EXCEPT !.sum = @ + ti[Writer]]
    /\ pc' = [pc EXCEPT ![Writer] = "toggle"]
    /\ UNCHANGED <<mainVars, ti, exMutex, mutex_owner, printed>>

\* add_value: self.processing = !self.processing
WriterToggle ==
    /\ pc[Writer] = "toggle"
    /\ shared' = [shared EXCEPT !.processing = ~@]
    /\ pc' = [pc EXCEPT ![Writer] = "unlock"]
    /\ UNCHANGED <<mainVars, ti, exMutex, mutex_owner, printed>>

\* the guard goes out of scope at the end of the block
WriterUnlock ==
    /\ pc[Writer] = "unlock"
    /\ mutex_owner' = "none"
    /\ pc' = [pc EXCEPT ![Writer] = "sleep"]
    /\ UNCHANGED <<mainVars, ti, exMutex, shared, printed>>

\* a loop that ends one iteration early
WriterSleepOneShort ==
    /\ pc[Writer] = "sleep"
    /\ ti' = [ti EXCEPT ![Writer] = ti[Writer] + 1]
    /\ pc' = [pc EXCEPT ![Writer] =
                 IF ti[Writer] + 1 < WriterIters - 1 THEN "lock" ELSE "done"]
    /\ UNCHANGED <<mainVars, exMutex, mutexVars>>

\* thread::sleep(10 ms), then the next iteration or the end of the closure
WriterSleep ==
    /\ pc[Writer] = "sleep"
    /\ ti' = [ti EXCEPT ![Writer] = ti[Writer] + 1]
    /\ pc' = [pc EXCEPT ![Writer] =
                 IF ti[Writer] + 1 < WriterIters THEN "lock" ELSE "done"]
    /\ UNCHANGED <<mainVars, exMutex, mutexVars>>

\* let data = shared_data_reader.lock().unwrap()
ReaderLock ==
    /\ pc[Reader] = "lock"
    /\ can_lock(mutex_owner)
    /\ mutex_owner' = "reader"
    /\ pc' = [pc EXCEPT ![Reader] = "print"]
    /\ UNCHANGED <<mainVars, ti, exMutex, shared, printed>>

\* data.print_stats()
ReaderPrint ==
    /\ pc[Reader] = "print"
    /\ printed' = Console(printed, print_stats(shared))
    /\ pc' = [pc EXCEPT ![Reader] = "unlock"]
    /\ UNCHANGED <<mainVars, ti, exMutex, shared, mutex_owner>>

\* the guard goes out of scope at the end of the block
ReaderUnlock ==
    /\ pc[Reader] = "unlock"
    /\ mutex_owner' = "none"
    /\ pc' = [pc EXCEPT ![Reader] = "sleep"]
    /\ UNCHANGED <<mainVars, ti, exMutex, shared, printed>>

\* thread::sleep(50 ms), then the next iteration or the end of the closure
ReaderSleep ==
    /\ pc[Reader] = "sleep"
    /\ ti' = [ti EXCEPT ![Reader] = ti[Reader] + 1]
    /\ pc' = [pc EXCEPT ![Reader] =
                 IF ti[Reader] + 1 < ReaderIters THEN "lock" ELSE "done"]
    /\ UNCHANGED <<mainVars, exMutex, mutexVars>>

\* writer.join().unwrap()
MutexJoinWriter ==
    /\ mpc = "mutex_join_writer"
    /\ pc[Writer] = "done"
    /\ mpc' = "mutex_join_reader"
    /\ UNCHANGED <<mi, panicked, thrVars, exMutex, mutexVars>>

\* reader.join().unwrap()
MutexJoinReader ==
    /\ mpc = "mutex_join_reader"
    /\ pc[Reader] = "done"
    /\ mpc' = "mutex_final_lock"
    /\ UNCHANGED <<mi, panicked, thrVars, exMutex, mutexVars>>

\* let final_data = shared_data.lock().unwrap()
MutexFinalLock ==
    /\ mpc = "mutex_final_lock"
    /\ can_lock(mutex_owner)
    /\ mutex_owner' = "main"
    /\ mpc' = "mutex_final_print"
    /\ UNCHANGED <<mi, panicked, thrVars, exMutex, shared, printed>>

\* final_data.print_stats()
MutexFinalPrint ==
    /\ mpc = "mutex_final_print"
    /\ printed' = Console(printed, print_stats(shared))
    /\ mpc' = "mutex_return"
    /\ UNCHANGED <<mi, panicked, thrVars, exMutex, shared, mutex_owner>>

\* the function returns: the guard, the Arc and the handles are gone
MutexReturn ==
    /\ mpc = "mutex_return"
    /\ mpc' = "rwlock_new"
    /\ shared' = SharedDataNew
    /\ mutex_owner' = "none"
    /\ printed' = <<>>
    /\ pc' = [t \in Threads |-> "none"]
    /\ ti' = [t \in Threads |-> 0]
    /\ UNCHANGED <<mi, panicked, exMutex>>

(***************************************************************************)
(* demonstrate_rwlock_safety (thread_safe.rs:142-185).                     *)
(*                                                                         *)
(* std::sync::RwLock leaves its priority policy to the platform: a writer  *)
(* blocked in write() "might or might not block concurrent calls to read". *)
(* rw_policy is the policy of the platform the build runs on.              *)
(***************************************************************************)
RwWriter == T("rw_writer", 0)
RwPolicies == {"writer_preferring", "reader_preferring"}

\* a read() that does not wait for the writer
can_read_unguarded(writer, pending, policy) == TRUE

\* RwLock::read returns: no write guard is held, and the policy lets a
\* reader pass a waiting writer
can_read(writer, pending, policy) ==
    /\ ~writer
    /\ (policy = "writer_preferring" => ~pending)

\* a write() that does not wait for the readers
can_write_over_readers(readers, writer) == ~writer

\* RwLock::write returns: no guard of either kind is held
can_write(readers, writer) == readers = {} /\ ~writer

\* let shared_data = Arc::new(RwLock::new(vec![1, 2, 3, 4, 5]))
RwNew ==
    /\ mpc = "rwlock_new"
    /\ rw_data' = <<1, 2, 3, 4, 5>>
    /\ rw_readers' = {}
    /\ rw_writer' = FALSE
    /\ rw_pending' = FALSE
    /\ rw_policy' \in RwPolicies
    /\ mpc' = "rwlock_spawn_readers"
    /\ mi' = 0
    /\ UNCHANGED <<panicked, thrVars, exRw>>

\* for i in 0..3 { handles.push(thread::spawn(..)) }
RwSpawnReaders ==
    /\ mpc = "rwlock_spawn_readers"
    /\ IF mi < NumReaders
       THEN /\ pc' = [pc EXCEPT ![T("rw_reader", mi)] = "read"]
            /\ mi' = mi + 1
            /\ mpc' = mpc
       ELSE /\ mpc' = "rwlock_spawn_writer"
            /\ mi' = 0
            /\ pc' = pc
    /\ UNCHANGED <<panicked, ti, rwVars, exRw>>

\* let writer_handle = thread::spawn(..); handles.push(writer_handle)
RwSpawnWriter ==
    /\ mpc = "rwlock_spawn_writer"
    /\ pc' = [pc EXCEPT ![RwWriter] = "sleep"]
    /\ mpc' = "rwlock_join"
    /\ mi' = 0
    /\ UNCHANGED <<panicked, ti, rwVars, exRw>>

\* let data = data_clone.read().unwrap()
RwReaderRead(r) ==
    /\ pc[r] = "read"
    /\ can_read(rw_writer, rw_pending, rw_policy)
    /\ rw_readers' = rw_readers \cup {r}
    /\ pc' = [pc EXCEPT ![r] = "print_len"]
    /\ UNCHANGED <<mainVars, ti, rw_data, rw_writer, rw_pending, rw_policy,
                   exRw>>

\* println!("Reader {}: Data length = {}", i, data.len())
RwReaderPrintLen(r) ==
    /\ pc[r] = "print_len"
    /\ ti' = [ti EXCEPT ![r] = Len(rw_data)]
    /\ pc' = [pc EXCEPT ![r] = "sleep"]
    /\ UNCHANGED <<mainVars, rwVars, exRw>>

\* thread::sleep(100 ms)
RwReaderSleep(r) ==
    /\ pc[r] = "sleep"
    /\ pc' = [pc EXCEPT ![r] = "print_first"]
    /\ UNCHANGED <<mainVars, ti, rwVars, exRw>>

\* println!("Reader {}: First element = {}", i, data[0]); the closure ends
\* and the read guard is dropped.  data[0] panics on an empty Vec.
RwReaderPrintFirst(r) ==
    /\ pc[r] = "print_first"
    /\ rw_readers' = rw_readers \ {r}
    /\ IF Len(rw_data) > 0
       THEN /\ ti' = [ti EXCEPT ![r] = rw_data[1]]
            /\ panicked' = panicked
       ELSE /\ ti' = ti
            /\ panicked' = TRUE
    /\ pc' = [pc EXCEPT ![r] = "done"]
    /\ UNCHANGED <<mpc, mi, rw_data, rw_writer, rw_pending, rw_policy, exRw>>

\* thread::sleep(50 ms), then the call of data_writer.write()
RwWriterRequest ==
    /\ pc[RwWriter] = "sleep"
    /\ rw_pending' = TRUE
    /\ pc' = [pc EXCEPT ![RwWriter] = "write"]
    /\ UNCHANGED <<mainVars, ti, rw_data, rw_readers, rw_writer, rw_policy,
                   exRw>>

\* let mut data = data_writer.write().unwrap(): write() returns
RwWriterWrite ==
    /\ pc[RwWriter] = "write"
    /\ can_write(rw_readers, rw_writer)
    /\ rw_writer' = TRUE
    /\ rw_pending' = FALSE
    /\ pc' = [pc EXCEPT ![RwWriter] = "push"]
    /\ UNCHANGED <<mainVars, ti, rw_data, rw_readers, rw_policy, exRw>>

\* println!("Writer: Adding element"); data.push(6)
RwWriterPush ==
    /\ pc[RwWriter] = "push"
    /\ rw_data' = Append(rw_data, 6)
    /\ pc' = [pc EXCEPT ![RwWriter] = "unlock"]
    /\ UNCHANGED <<mainVars, ti, rw_readers, rw_writer, rw_pending,
                   rw_policy, exRw>>

\* the write guard goes out of scope; println!("Writer: Done")
RwWriterUnlock ==
    /\ pc[RwWriter] = "unlock"
    /\ rw_writer' = FALSE
    /\ pc' = [pc EXCEPT ![RwWriter] = "done"]
    /\ UNCHANGED <<mainVars, ti, rw_data, rw_readers, rw_pending, rw_policy,
                   exRw>>

\* the handles in the order they were pushed: the readers, then the writer
RwHandle(i) == IF i < NumReaders THEN T("rw_reader", i) ELSE RwWriter

\* for handle in handles { handle.join().unwrap() }
RwJoin ==
    /\ mpc = "rwlock_join"
    /\ IF mi < NumReaders + 1
       THEN /\ pc[RwHandle(mi)] = "done"
            /\ mi' = mi + 1
            /\ mpc' = mpc
       ELSE /\ mpc' = "rwlock_final_read"
            /\ mi' = 0
    /\ UNCHANGED <<panicked, thrVars, rwVars, exRw>>

\* let final_data = shared_data.read().unwrap()
RwFinalRead ==
    /\ mpc = "rwlock_final_read"
    /\ can_read(rw_writer, rw_pending, rw_policy)
    /\ rw_readers' = rw_readers \cup {Main}
    /\ mpc' = "rwlock_return"
    /\ UNCHANGED <<mi, panicked, thrVars, rw_data, rw_writer, rw_pending,
                   rw_policy, exRw>>

\* println!("Final data: ..."); the function returns
RwReturn ==
    /\ mpc = "rwlock_return"
    /\ mpc' = "sendsync_spawn"
    /\ rw_data' = <<>>
    /\ rw_readers' = {}
    /\ rw_writer' = FALSE
    /\ rw_pending' = FALSE
    /\ rw_policy' = "unset"
    /\ pc' = [t \in Threads |-> "none"]
    /\ ti' = [t \in Threads |-> 0]
    /\ UNCHANGED <<mi, panicked, exRw>>

(***************************************************************************)
(* demonstrate_send_sync_traits (thread_safe.rs:187-218).                  *)
(***************************************************************************)
SendSync == T("send_sync", 0)

\* let handle = thread::spawn(..)
SendSyncSpawn ==
    /\ mpc = "sendsync_spawn"
    /\ pc' = [pc EXCEPT ![SendSync] = "print"]
    /\ mpc' = "sendsync_join"
    /\ UNCHANGED <<mi, panicked, ti, allDemoVars>>

\* println!("Thread safe data: {}", data_clone)
SendSyncPrint ==
    /\ pc[SendSync] = "print"
    /\ pc' = [pc EXCEPT ![SendSync] = "done"]
    /\ UNCHANGED <<mainVars, ti, allDemoVars>>

\* handle.join().unwrap(); println!(..); the function returns
SendSyncJoin ==
    /\ mpc = "sendsync_join"
    /\ pc[SendSync] = "done"
    /\ mpc' = "channel_new"
    /\ pc' = [t \in Threads |-> "none"]
    /\ UNCHANGED <<mi, panicked, ti, allDemoVars>>

(***************************************************************************)
(* demonstrate_channel_safety (thread_safe.rs:220-246).                    *)
(***************************************************************************)
Producer == T("producer", 0)
Consumer == T("consumer", 0)

\* format!("Message {}", i)
Message(i) == "Message " \o ToString(i)

\* a receive that does not block (try_recv): Err on an empty channel
recv_ready_nonblocking(queue, alive) == TRUE

\* Receiver::recv: the oldest message, or Err once the channel is empty and
\* every Sender is dropped; otherwise it blocks
recv_ready(queue, alive) == queue # <<>> \/ ~alive

recv(queue, alive) ==
    IF queue # <<>> THEN [ok |-> TRUE, message |-> Head(queue)]
    ELSE [ok |-> FALSE, message |-> ""]

\* let (sender, receiver) = mpsc::channel()
ChannelNew ==
    /\ mpc = "channel_new"
    /\ chan' = <<>>
    /\ sender_alive' = TRUE
    /\ receiver_alive' = TRUE
    /\ sent' = <<>>
    /\ received' = <<>>
    /\ mpc' = "channel_spawn_producer"
    /\ UNCHANGED <<mi, panicked, thrVars, exChan>>

\* let producer = thread::spawn(..)
ChannelSpawnProducer ==
    /\ mpc = "channel_spawn_producer"
    /\ pc' = [pc EXCEPT ![Producer] = IF 0 < NumMessages THEN "send" ELSE "exit"]
    /\ ti' = [ti EXCEPT ![Producer] = 0]
    /\ mpc' = "channel_spawn_consumer"
    /\ UNCHANGED <<mi, panicked, chanVars, exChan>>

\* let consumer = thread::spawn(..)
ChannelSpawnConsumer ==
    /\ mpc = "channel_spawn_consumer"
    /\ pc' = [pc EXCEPT ![Consumer] = "recv"]
    /\ mpc' = "channel_join_producer"
    /\ UNCHANGED <<mi, panicked, ti, chanVars, exChan>>

\* sender.send(format!("Message {}", i)).unwrap(): Err, and the unwrap
\* panics, when the Receiver is gone
ProducerSend ==
    /\ pc[Producer] = "send"
    /\ IF receiver_alive
       THEN /\ chan' = Append(chan, Message(ti[Producer]))
            /\ sent' = Append(sent, Message(ti[Producer]))
            /\ pc' = [pc EXCEPT ![Producer] = "sleep"]
            /\ UNCHANGED <<panicked, sender_alive>>
       ELSE /\ panicked' = TRUE
            /\ sender_alive' = FALSE
            /\ pc' = [pc EXCEPT ![Producer] = "panic"]
            /\ UNCHANGED <<chan, sent>>
    /\ UNCHANGED <<mpc, mi, ti, receiver_alive, received, exChan>>

\* thread::sleep(100 ms), then the next iteration or the end of the loop
ProducerSleep ==
    /\ pc[Producer] = "sleep"
    /\ ti' = [ti EXCEPT ![Producer] = ti[Producer] + 1]
    /\ pc' = [pc EXCEPT ![Producer] =
                 IF ti[Producer] + 1 < NumMessages THEN "send" ELSE "exit"]
    /\ UNCHANGED <<mainVars, chanVars, exChan>>

\* the closure ends and the Sender lives on (a clone kept elsewhere)
ProducerExitSenderLeaked ==
    /\ pc[Producer] = "exit"
    /\ pc' = [pc EXCEPT ![Producer] = "done"]
    /\ UNCHANGED <<mainVars, ti, chanVars, exChan>>

\* the closure ends: sender is dropped
ProducerExit ==
    /\ pc[Producer] = "exit"
    /\ sender_alive' = FALSE
    /\ pc' = [pc EXCEPT ![Producer] = "done"]
    /\ UNCHANGED <<mainVars, ti, chan, receiver_alive, sent, received, exChan>>

\* while let Ok(message) = receiver.recv() { println!("Received: ..") }
ConsumerRecv ==
    /\ pc[Consumer] = "recv"
    /\ recv_ready(chan, sender_alive)
    /\ LET r == recv(chan, sender_alive) IN
       IF r.ok
       THEN /\ chan' = Tail(chan)
            /\ received' = Append(received, r.message)
            /\ pc' = pc
       ELSE /\ pc' = [pc EXCEPT ![Consumer] = "all_received"]
            /\ UNCHANGED <<chan, received>>
    /\ UNCHANGED <<mainVars, ti, sender_alive, receiver_alive, sent, exChan>>

\* println!("All messages received"); the closure ends: receiver is dropped
ConsumerExit ==
    /\ pc[Consumer] = "all_received"
    /\ receiver_alive' = FALSE
    /\ pc' = [pc EXCEPT ![Consumer] = "done"]
    /\ UNCHANGED <<mainVars, ti, chan, sender_alive, sent, received, exChan>>

\* producer.join().unwrap(): the unwrap panics when the producer panicked
ChannelJoinProducer ==
    /\ mpc = "channel_join_producer"
    /\ pc[Producer] \in {"done", "panic"}
    /\ mpc' = IF pc[Producer] = "done" THEN "channel_join_consumer" ELSE "panic"
    /\ UNCHANGED <<mi, panicked, thrVars, chanVars, exChan>>

\* consumer.join().unwrap()
ChannelJoinConsumer ==
    /\ mpc = "channel_join_consumer"
    /\ pc[Consumer] = "done"
    /\ mpc' = "channel_return"
    /\ UNCHANGED <<mi, panicked, thrVars, chanVars, exChan>>

\* the function returns
ChannelReturn ==
    /\ mpc = "channel_return"
    /\ mpc' = "scoped_new"
    /\ chan' = <<>>
    /\ sender_alive' = FALSE
    /\ receiver_alive' = FALSE
    /\ sent' = <<>>
    /\ received' = <<>>
    /\ pc' = [t \in Threads |-> "none"]
    /\ ti' = [t \in Threads |-> 0]
    /\ UNCHANGED <<mi, panicked, exChan>>

(***************************************************************************)
(* demonstrate_scoped_threads (thread_safe.rs:248-273).                    *)
(***************************************************************************)
ScopedReader == T("scoped_reader", 0)
ScopedThreads == {ScopedReader}

\* a join that does not wait
scoped_finished_nowait(p) == TRUE

\* a scoped thread has finished: what ScopedJoinHandle::join and the end of
\* thread::scope wait for
scoped_finished(p) == p = "done"

\* let mut data = vec![1, 2, 3, 4, 5]
ScopedNew ==
    /\ mpc = "scoped_new"
    /\ sc_data' = <<1, 2, 3, 4, 5>>
    /\ sc_seen' = <<>>
    /\ mpc' = "scoped_spawn"
    /\ UNCHANGED <<mi, panicked, thrVars, exScoped>>

\* thread::scope(|s| { let reader = s.spawn(..)
ScopedSpawn ==
    /\ mpc = "scoped_spawn"
    /\ pc' = [pc EXCEPT ![ScopedReader] = "print"]
    /\ mpc' = "scoped_join"
    /\ UNCHANGED <<mi, panicked, ti, scopedVars, exScoped>>

\* println!("Reader: Data = {:?}", data)
ScopedReaderPrint ==
    /\ pc[ScopedReader] = "print"
    /\ sc_seen' = Append(sc_seen, sc_data)
    /\ pc' = [pc EXCEPT ![ScopedReader] = "done"]
    /\ UNCHANGED <<mainVars, ti, sc_data, exScoped>>

\* reader.join().unwrap()
ScopedJoin ==
    /\ mpc = "scoped_join"
    /\ scoped_finished(pc[ScopedReader])
    /\ mpc' = "scoped_end"
    /\ UNCHANGED <<mi, panicked, thrVars, scopedVars, exScoped>>

\* }): thread::scope returns once every thread spawned in it has finished
ScopedEnd ==
    /\ mpc = "scoped_end"
    /\ \A t \in ScopedThreads : pc[t] = "none" \/ scoped_finished(pc[t])
    /\ mpc' = "scoped_push"
    /\ UNCHANGED <<mi, panicked, thrVars, scopedVars, exScoped>>

\* data.push(6)
ScopedPush ==
    /\ mpc = "scoped_push"
    /\ sc_data' = Append(sc_data, 6)
    /\ mpc' = "scoped_return"
    /\ UNCHANGED <<mi, panicked, thrVars, sc_seen, exScoped>>

\* println!("After scoped threads: {:?}", data); the function returns
ScopedReturn ==
    /\ mpc = "scoped_return"
    /\ mpc' = "atomic_new"
    /\ sc_data' = <<>>
    /\ sc_seen' = <<>>
    /\ pc' = [t \in Threads |-> "none"]
    /\ UNCHANGED <<mi, panicked, ti, exScoped>>

(***************************************************************************)
(* demonstrate_atomic_operations (thread_safe.rs:275-309).                 *)
(***************************************************************************)
\* let counter = Arc::new(AtomicUsize::new(0)); let flag = ..(false)
AtomicNew ==
    /\ mpc = "atomic_new"
    /\ a_counter' = 0
    /\ a_flag' = FALSE
    /\ mpc' = "atomic_spawn"
    /\ mi' = 0
    /\ UNCHANGED <<panicked, thrVars, exAtomic>>

\* for i in 0..5 { handles.push(thread::spawn(..)) }
AtomicSpawn ==
    /\ mpc = "atomic_spawn"
    /\ IF mi < NumAtomicThreads
       THEN /\ pc' = [pc EXCEPT ![T("atomic", mi)] = "fetch_add"]
            /\ mi' = mi + 1
            /\ mpc' = mpc
       ELSE /\ mpc' = "atomic_join"
            /\ mi' = 0
            /\ pc' = pc
    /\ UNCHANGED <<panicked, ti, atomicVars, exAtomic>>

\* a load followed by a separate store: the value read may be stale when the
\* sum is written back
AtomicFetchAddRacy(t) ==
    /\ pc[t] = "fetch_add"
    /\ \E stale \in 0..a_counter :
           /\ ti' = [ti EXCEPT ![t] = stale]
           /\ a_counter' = stale + 1
    /\ pc' = [pc EXCEPT ![t] = "compare"]
    /\ UNCHANGED <<mainVars, a_flag, exAtomic>>

\* let old_value = counter_clone.fetch_add(1, Ordering::SeqCst)
AtomicFetchAdd(t) ==
    /\ pc[t] = "fetch_add"
    /\ ti' = [ti EXCEPT ![t] = a_counter]
    /\ a_counter' = fetch_add(a_counter, 1)
    /\ pc' = [pc EXCEPT ![t] = "compare"]
    /\ UNCHANGED <<mainVars, a_flag, exAtomic>>

\* println!(..); if old_value == 2 {
AtomicCompare(t) ==
    /\ pc[t] = "compare"
    /\ pc' = [pc EXCEPT ![t] = IF ti[t] = 2 THEN "store" ELSE "done"]
    /\ UNCHANGED <<mainVars, ti, atomicVars, exAtomic>>

\* flag_clone.store(true, Ordering::SeqCst); println!(..) }
AtomicStore(t) ==
    /\ pc[t] = "store"
    /\ a_flag' = TRUE
    /\ pc' = [pc EXCEPT ![t] = "done"]
    /\ UNCHANGED <<mainVars, ti, a_counter, exAtomic>>

\* for handle in handles { handle.join().unwrap() }
AtomicJoin ==
    /\ mpc = "atomic_join"
    /\ IF mi < NumAtomicThreads
       THEN /\ pc[T("atomic", mi)] = "done"
            /\ mi' = mi + 1
            /\ mpc' = mpc
       ELSE /\ mpc' = "atomic_return"
            /\ mi' = 0
    /\ UNCHANGED <<panicked, thrVars, atomicVars, exAtomic>>

\* println!("Final counter: ..."); println!("Final flag: ..."); return
AtomicReturn ==
    /\ mpc = "atomic_return"
    /\ mpc' = "compile_time_new"
    /\ a_counter' = 0
    /\ a_flag' = FALSE
    /\ pc' = [t \in Threads |-> "none"]
    /\ ti' = [t \in Threads |-> 0]
    /\ UNCHANGED <<mi, panicked, exAtomic>>

(***************************************************************************)
(* demonstrate_compile_time_safety (thread_safe.rs:312-345).               *)
(***************************************************************************)
CompileTime == T("compile_time", 0)

\* let mut data = vec![1, 2, 3]; let safe_data = Arc::new(Mutex::new(data))
CompileTimeNew ==
    /\ mpc = "compile_time_new"
    /\ ct_data' = <<1, 2, 3>>
    /\ ct_owner' = "none"
    /\ mpc' = "compile_time_spawn"
    /\ UNCHANGED <<mi, panicked, thrVars, exCt>>

\* let handle = thread::spawn(..)
CompileTimeSpawn ==
    /\ mpc = "compile_time_spawn"
    /\ pc' = [pc EXCEPT ![CompileTime] = "lock"]
    /\ mpc' = "compile_time_join"
    /\ UNCHANGED <<mi, panicked, ti, ctVars, exCt>>

\* let mut guard = safe_data_clone.lock().unwrap()
CompileTimeLock ==
    /\ pc[CompileTime] = "lock"
    /\ can_lock(ct_owner)
    /\ ct_owner' = "thread"
    /\ pc' = [pc EXCEPT ![CompileTime] = "push"]
    /\ UNCHANGED <<mainVars, ti, ct_data, exCt>>

\* guard.push(4); the closure ends and the guard is dropped
CompileTimePush ==
    /\ pc[CompileTime] = "push"
    /\ ct_data' = Append(ct_data, 4)
    /\ ct_owner' = "none"
    /\ pc' = [pc EXCEPT ![CompileTime] = "done"]
    /\ UNCHANGED <<mainVars, ti, exCt>>

\* handle.join().unwrap()
CompileTimeJoin ==
    /\ mpc = "compile_time_join"
    /\ pc[CompileTime] = "done"
    /\ mpc' = "compile_time_lock"
    /\ UNCHANGED <<mi, panicked, thrVars, ctVars, exCt>>

\* let final_data = safe_data.lock().unwrap()
CompileTimeFinalLock ==
    /\ mpc = "compile_time_lock"
    /\ can_lock(ct_owner)
    /\ ct_owner' = "main"
    /\ mpc' = "compile_time_return"
    /\ UNCHANGED <<mi, panicked, thrVars, ct_data, exCt>>

\* println!("Safely modified data: ..."); the function returns
CompileTimeReturn ==
    /\ mpc = "compile_time_return"
    /\ mpc' = "summary"
    /\ ct_data' = <<>>
    /\ ct_owner' = "none"
    /\ pc' = [t \in Threads |-> "none"]
    /\ UNCHANGED <<mi, panicked, ti, exCt>>

\* main prints the summary and returns
Summary ==
    /\ mpc = "summary"
    /\ mpc' = "done"
    /\ UNCHANGED <<mi, panicked, thrVars, allDemoVars>>

Next ==
    \/ CounterNew
    \/ CounterSpawn
    \/ \E w \in Workers : WorkerIncrement(w)
    \/ \E w \in Workers : WorkerExit(w)
    \/ CounterJoin
    \/ CounterCheck
    \/ CounterAssert
    \/ CounterReturn
    \/ MutexNew
    \/ MutexSpawnWriter
    \/ MutexSpawnReader
    \/ WriterLock
    \/ WriterPush
    \/ WriterSum
    \/ WriterToggle
    \/ WriterUnlock
    \/ WriterSleep
    \/ ReaderLock
    \/ ReaderPrint
    \/ ReaderUnlock
    \/ ReaderSleep
    \/ MutexJoinWriter
    \/ MutexJoinReader
    \/ MutexFinalLock
    \/ MutexFinalPrint
    \/ MutexReturn
    \/ RwNew
    \/ RwSpawnReaders
    \/ RwSpawnWriter
    \/ \E r \in RwReaders : RwReaderRead(r)
    \/ \E r \in RwReaders : RwReaderPrintLen(r)
    \/ \E r \in RwReaders : RwReaderSleep(r)
    \/ \E r \in RwReaders : RwReaderPrintFirst(r)
    \/ RwWriterRequest
    \/ RwWriterWrite
    \/ RwWriterPush
    \/ RwWriterUnlock
    \/ RwJoin
    \/ RwFinalRead
    \/ RwReturn
    \/ SendSyncSpawn
    \/ SendSyncPrint
    \/ SendSyncJoin
    \/ ChannelNew
    \/ ChannelSpawnProducer
    \/ ChannelSpawnConsumer
    \/ ProducerSend
    \/ ProducerSleep
    \/ ProducerExit
    \/ ConsumerRecv
    \/ ConsumerExit
    \/ ChannelJoinProducer
    \/ ChannelJoinConsumer
    \/ ChannelReturn
    \/ ScopedNew
    \/ ScopedSpawn
    \/ ScopedReaderPrint
    \/ ScopedJoin
    \/ ScopedEnd
    \/ ScopedPush
    \/ ScopedReturn
    \/ AtomicNew
    \/ AtomicSpawn
    \/ \E t \in AtomicThreads : AtomicFetchAdd(t)
    \/ \E t \in AtomicThreads : AtomicCompare(t)
    \/ \E t \in AtomicThreads : AtomicStore(t)
    \/ AtomicJoin
    \/ AtomicReturn
    \/ CompileTimeNew
    \/ CompileTimeSpawn
    \/ CompileTimeLock
    \/ CompileTimePush
    \/ CompileTimeJoin
    \/ CompileTimeFinalLock
    \/ CompileTimeReturn
    \/ Summary

Spec == Init /\ [][Next]_vars

\* The operating system runs every thread that can run: whatever step is
\* possible is eventually taken.
FairSpec == Spec /\ WF_vars(Next)

(***************************************************************************)
(* C1: with N workers that each call increment K times on a counter that   *)
(* starts at 0, the value get_count returns once all workers are joined is *)
(* N*K, so the assert_eq! never fails.                                     *)
(***************************************************************************)
C1_CounterExact ==
    /\ mpc = "counter_check" =>
           get_count(count) = num_threads * increments_per_thread
    /\ mpc = "counter_assert" =>
           actual = expected /\ actual = num_threads * increments_per_thread
    /\ mpc # "assert_failed"

C1_Witness ==
    /\ mpc = "counter_assert"
    /\ num_threads >= 2
    /\ increments_per_thread >= 2
    /\ actual = num_threads * increments_per_thread

(***************************************************************************)
(* C2: whatever print_stats observes, in the reader or in main, is the     *)
(* SharedData after exactly n complete add_value calls, n in 0..10: data = *)
(* [0..n-1], sum = 0+..+(n-1), processing = (n is odd).                    *)
(***************************************************************************)
Revision(n) == [data |-> UpTo(n), sum |-> SumSeq(UpTo(n)),
                processing |-> (n % 2 = 1)]

C2_PrintsConsistent ==
    /\ \A k \in 1..Len(printed) :
           \E n \in 0..WriterIters : printed[k] = print_stats(Revision(n))
    /\ (pc[Reader] = "print" \/ mpc = "mutex_final_print") =>
           \E n \in 0..WriterIters : shared = Revision(n)

C2_Witness ==
    /\ pc[Reader] = "unlock"
    /\ pc[Writer] = "lock"
    /\ printed # <<>>
    /\ printed[Len(printed)] = print_stats(Revision(5))

(***************************************************************************)
(* C3: no reader's read window (from read() to the end of its closure)     *)
(* overlaps the writer's write window (from write() returning to the end   *)
(* of the push block); two or more readers can be inside their read        *)
(* windows at the same time.                                               *)
(***************************************************************************)
InReadWindow(r) == pc[r] \in {"print_len", "sleep", "print_first"}
InWriteWindow == pc[RwWriter] \in {"push", "unlock"}

C3_NoReadWriteOverlap ==
    /\ InWriteWindow => \A r \in RwReaders : ~InReadWindow(r)
    /\ rw_writer => rw_readers = {}

C3_Witness ==
    /\ Cardinality({r \in RwReaders : InReadWindow(r)}) >= 2
    /\ Cardinality(rw_readers) >= 2

(***************************************************************************)
(* C4: what the consumer has received is always a prefix of what the       *)
(* producer has sent, which is a prefix of "Message 0" .. "Message 4"; the *)
(* consumer leaves its loop only after it has received all five messages   *)
(* and the sender is dropped, and nobody panics.                           *)
(***************************************************************************)
IsPrefix(s, t) == Len(s) <= Len(t) /\ \A i \in 1..Len(s) : s[i] = t[i]

AllMessages ==
    <<"Message 0", "Message 1", "Message 2", "Message 3", "Message 4">>

InChannelDemo ==
    mpc \in {"channel_spawn_producer", "channel_spawn_consumer",
             "channel_join_producer", "channel_join_consumer",
             "channel_return"}

C4_ChannelOrder ==
    InChannelDemo =>
        /\ IsPrefix(received, sent)
        /\ IsPrefix(sent, AllMessages)
        /\ sent = received \o chan
        /\ pc[Consumer] \in {"all_received", "done"} =>
               received = AllMessages /\ ~sender_alive
        /\ pc[Producer] # "panic"
        /\ ~panicked

C4_Witness ==
    /\ pc[Consumer] = "all_received"
    /\ received = AllMessages
    /\ ~sender_alive

(***************************************************************************)
(* C5: data.push(6) happens only after every thread spawned in the scope   *)
(* has finished: the scoped reader prints [1,2,3,4,5], never a list with   *)
(* 6, and main is past the scope only when no scoped thread is running.    *)
(***************************************************************************)
C5_ScopedBeforePush ==
    /\ \A k \in 1..Len(sc_seen) : sc_seen[k] = <<1, 2, 3, 4, 5>>
    /\ mpc \in {"scoped_push", "scoped_return"} =>
           \A t \in ScopedThreads : pc[t] = "done"
    /\ (mpc = "scoped_return" \/ pc[ScopedReader] = "done") =>
           sc_seen = << <<1, 2, 3, 4, 5>> >>
    /\ 6 \in Range(sc_data) => pc[ScopedReader] = "done"

C5_Witness ==
    /\ mpc = "scoped_return"
    /\ sc_data = <<1, 2, 3, 4, 5, 6>>
    /\ sc_seen = << <<1, 2, 3, 4, 5>> >>

(***************************************************************************)
(* C6: under fair scheduling main reaches the end of the program; main     *)
(* enters a demonstration only when no thread of an earlier one is still   *)
(* running, and nothing panics on the way.                                 *)
(***************************************************************************)
DemoEntries ==
    {"mutex_new", "rwlock_new", "sendsync_spawn", "channel_new",
     "scoped_new", "atomic_new", "compile_time_new", "summary"}

AllThreadsFinished == \A t \in Threads : pc[t] \in {"none", "done"}

C6_Terminates ==
    /\ <>(mpc = "done")
    /\ [][mpc' # mpc /\ mpc' \in DemoEntries => AllThreadsFinished]_vars
    /\ [](~panicked)

C6_Witness ==
    /\ mpc = "done"
    /\ AllThreadsFinished
    /\ ~panicked

(***************************************************************************)
(* C7 as stated: the Vec changes only while no reader holds a read guard,  *)
(* and from the moment write() is called until the write guard is dropped  *)
(* no further reader acquires a read guard.                                *)
(***************************************************************************)
C7_NoReaderOncePending ==
    /\ [][rw_data' # rw_data /\ mpc = "rwlock_join" => rw_readers = {}]_vars
    /\ [][(rw_pending \/ rw_writer) => rw_readers' \subseteq rw_readers]_vars

(***************************************************************************)
(* C7 amended: the Vec changes only while no reader holds a read guard,    *)
(* and from the moment write() has returned until the write guard is       *)
(* dropped no reader acquires a read guard.                                *)
(***************************************************************************)
C7_NoReaderWhileWriting ==
    /\ [][rw_data' # rw_data /\ mpc = "rwlock_join" => rw_readers = {}]_vars
    /\ [][rw_writer => rw_readers' \subseteq rw_readers]_vars

\* the writer holds the write guard while a reader is blocked in read()
C7_Witness ==
    /\ rw_writer
    /\ pc[RwWriter] = "push"
    /\ \E r \in RwReaders : pc[r] = "read"

(***************************************************************************)
(* buffer_safe.rs: array_bounds_safety (buffer_safe.rs:35-62), for every   *)
(* container of up to MaxLen elements and every index up to MaxIndex.      *)
(***************************************************************************)
\* the longest container drawn, and the largest element in it
MaxLen == 3
MaxValue == 2
\* the largest index asked for beyond the container's length
MaxBeyond == 2

\* let arr = [1, 2, 3, 4, 5]
ProgramArr == <<1, 2, 3, 4, 5>>

\* every sequence over S of length 0..n
SeqsUpTo(S, n) == UNION {[1..k -> S] : k \in 0..n}

Arrays == SeqsUpTo(1..MaxValue, MaxLen) \cup {ProgramArr}

None == [some |-> FALSE, value |-> 0]
Some(v) == [some |-> TRUE, value |-> v]

\* a length that is not clamped to the destination: the source's own
Min_unclamped(a, b) == b

Min(a, b) == IF a < b THEN a ELSE b

\* an access that clamps the index to the last element instead of refusing
get_clamped(a, i) ==
    IF Len(a) = 0 THEN None ELSE Some(a[Min(i, Len(a) - 1) + 1])

\* <[T]>::get(i): Some(&self[i]) when i < self.len(), else None; Rust's
\* indices start at 0, a TLA+ sequence's at 1
get(a, i) == IF i < Len(a) THEN Some(a[i + 1]) ELSE None

InitBuffer ==
    /\ ThreadProgIdle
    /\ CopyIdle
    /\ OptionIdle /\ ResultIdle
    /\ MemoryIdle
    /\ b_pc = "get"
    /\ arr \in Arrays
    /\ idx \in 0..(Len(arr) + MaxBeyond) \cup {4, 10}
    /\ got = None
    /\ b_out = <<>>

\* arr.get(idx)
BoundsGet ==
    /\ b_pc = "get"
    /\ got' = get(arr, idx)
    /\ b_pc' = "match"
    /\ UNCHANGED <<arr, idx, b_out, otherThanBounds>>

\* match .. { Some(value) => println!(..value), None => println!(..) }
BoundsMatch ==
    /\ b_pc = "match"
    /\ b_out' = IF got.some
                THEN Append(b_out, [text |-> "value", value |-> got.value])
                ELSE Append(b_out, [text |-> "out of bounds", value |-> 0])
    /\ b_pc' = "done"
    /\ UNCHANGED <<arr, idx, got, otherThanBounds>>

NextBuffer ==
    \/ BoundsGet
    \/ BoundsMatch

SpecBuffer == InitBuffer /\ [][NextBuffer]_vars

(***************************************************************************)
(* C8: for a container of length L and every index i, get(i) is the        *)
(* element at position i when i < L and absent when i >= L; it never       *)
(* yields a value that is not an element of the container.                 *)
(***************************************************************************)
C8_CheckedGet ==
    b_pc \in {"match", "done"} =>
        /\ idx < Len(arr) => got.some /\ got.value = arr[idx + 1]
        /\ idx >= Len(arr) => ~got.some
        /\ got.some => got.value \in Range(arr)
        /\ b_pc = "done" =>
               b_out = IF idx < Len(arr)
                       THEN <<[text |-> "value", value |-> arr[idx + 1]]>>
                       ELSE <<[text |-> "out of bounds", value |-> 0]>>

\* the program's call arr.get(10) on [1, 2, 3, 4, 5]: absent
C8_Witness ==
    /\ b_pc = "done"
    /\ arr = ProgramArr
    /\ idx = 10
    /\ ~got.some
    /\ b_out = <<[text |-> "out of bounds", value |-> 0]>>

(***************************************************************************)
(* buffer_safe.rs: demonstrate_buffer_safety (buffer_safe.rs:9-33), for    *)
(* every buffer of up to MaxBuffer bytes and every input of up to MaxInput *)
(* bytes, and for the program's own buffer and input.                      *)
(***************************************************************************)
MaxBuffer == 3
MaxInput == 4

\* let mut buffer: [u8; 10]
BufferLen == 10

\* the bytes of "This string is much longer than 10 characters and would
\* overflow in C++!"
ProgramInput ==
    <<84, 104, 105, 115, 32, 115, 116, 114, 105, 110, 103, 32, 105, 115, 32,
      109, 117, 99, 104, 32, 108, 111, 110, 103, 101, 114, 32, 116, 104, 97,
      110, 32, 49, 48, 32, 99, 104, 97, 114, 97, 99, 116, 101, 114, 115, 32,
      97, 110, 100, 32, 119, 111, 117, 108, 100, 32, 111, 118, 101, 114, 102,
      108, 111, 119, 32, 105, 110, 32, 67, 43, 43, 33>>

\* [0; n]
Zeros(n) == [j \in 1..n |-> 0]

BufferLens == (0..MaxBuffer) \cup {BufferLen}
Inputs == SeqsUpTo(1..MaxValue, MaxInput) \cup {ProgramInput}

InitCopy ==
    /\ ThreadProgIdle
    /\ BufferIdle
    /\ OptionIdle /\ ResultIdle
    /\ MemoryIdle
    /\ c_pc = "len"
    /\ \E n \in BufferLens : buffer = Zeros(n)
    /\ input \in Inputs
    /\ copy_len = 0
    /\ c_j = 0
    /\ c_read = {}
    /\ c_written = {}
    /\ dynamic_buffer = <<>>
    /\ c_out = <<>>

\* the two sizes are printed; copy_len = min(buffer.len(), safe_bytes.len())
CopyLen ==
    /\ c_pc = "len"
    /\ copy_len' = Min(Len(buffer), Len(input))
    /\ c_out' = c_out \o <<[text |-> "Buffer size", value |-> Len(buffer)],
                           [text |-> "Input size", value |-> Len(input)]>>
    /\ c_pc' = "slice"
    /\ UNCHANGED <<buffer, input, c_j, c_read, c_written, dynamic_buffer,
                   otherThanCopy>>

\* buffer[..copy_len] and safe_bytes[..copy_len]: a range that ends beyond
\* the slice panics; the two subslices have the same length, as
\* copy_from_slice requires
CopySlice ==
    /\ c_pc = "slice"
    /\ c_pc' = IF copy_len <= Len(buffer) /\ copy_len <= Len(input)
               THEN "copy" ELSE "panicked"
    /\ UNCHANGED <<buffer, input, copy_len, c_j, c_read, c_written,
                   dynamic_buffer, c_out, otherThanCopy>>

\* copy_from_slice moves one byte
CopyByte ==
    /\ c_pc = "copy"
    /\ c_j < copy_len
    /\ buffer' = [buffer EXCEPT ![c_j + 1] = input[c_j + 1]]
    /\ c_read' = c_read \cup {c_j}
    /\ c_written' = c_written \cup {c_j}
    /\ c_j' = c_j + 1
    /\ UNCHANGED <<c_pc, input, copy_len, dynamic_buffer, c_out,
                   otherThanCopy>>

\* the copy is complete: copy_len and the buffer are printed
CopyPrint ==
    /\ c_pc = "copy"
    /\ c_j = copy_len
    /\ c_out' = c_out \o <<[text |-> "Safely copied", value |-> copy_len],
                           [text |-> "Buffer contents", value |-> buffer]>>
    /\ c_pc' = "extend"
    /\ UNCHANGED <<buffer, input, copy_len, c_j, c_read, c_written,
                   dynamic_buffer, otherThanCopy>>

\* dynamic_buffer.extend_from_slice(input.as_bytes()), and its size printed
CopyExtend ==
    /\ c_pc = "extend"
    /\ dynamic_buffer' = dynamic_buffer \o input
    /\ c_out' = Append(c_out, [text |-> "Dynamic buffer size",
                               value |-> Len(dynamic_buffer')])
    /\ c_pc' = "done"
    /\ UNCHANGED <<buffer, input, copy_len, c_j, c_read, c_written,
                   otherThanCopy>>

NextCopy ==
    \/ CopyLen
    \/ CopySlice
    \/ CopyByte
    \/ CopyPrint
    \/ CopyExtend

SpecCopy == InitCopy /\ [][NextCopy]_vars

(***************************************************************************)
(* C14: for a buffer of B bytes and an input of I bytes the copy takes     *)
(* copy_len = min(B, I) bytes and does not panic; afterwards the first     *)
(* copy_len bytes of the buffer are those of the input and every later     *)
(* byte is what it was; no step changes the buffer's length or a byte at   *)
(* copy_len or beyond, and only positions below B of the buffer and below  *)
(* I of the input are touched.                                             *)
(***************************************************************************)
Smaller(b, i) == IF b <= i THEN b ELSE i

CopyState ==
    LET B == Len(buffer)
        L == Len(input)
        n == Smaller(B, L)
    IN  /\ c_pc # "panicked"
        /\ c_pc # "len" => copy_len = n
        /\ c_written \subseteq 0..(B - 1)
        /\ c_read \subseteq 0..(L - 1)
        /\ c_pc \in {"extend", "done"} =>
               /\ c_written = 0..(n - 1)
               /\ c_read = 0..(n - 1)
               /\ \A j \in 1..n : buffer[j] = input[j]
               /\ \A j \in (n + 1)..B : buffer[j] = 0

CopyFrame ==
    /\ Len(buffer') = Len(buffer)
    /\ input' = input
    /\ \A j \in 1..Len(buffer) :
           (j > copy_len \/ c_pc # "copy") => buffer'[j] = buffer[j]

C14_CopyMin == [](CopyState) /\ [][CopyFrame]_vars

\* the program's case: 10 bytes of the 72 are copied
C14_Witness ==
    /\ c_pc = "done"
    /\ Len(buffer) = BufferLen
    /\ input = ProgramInput
    /\ copy_len = 10
    /\ c_written = 0..9
    /\ buffer = <<84, 104, 105, 115, 32, 115, 116, 114, 105, 110>>

(***************************************************************************)
(* option_safe.rs: find_resource_by_id and the match on its result         *)
(* (option_safe.rs:36-72), for every list of up to MaxResources resources  *)
(* and every target id.                                                    *)
(***************************************************************************)
MaxResources == 3

Resource(id, name) == [id |-> id, name |-> name]

\* the list of demonstrate_option_safety
ProgramResources ==
    <<Resource(1, "Database"), Resource(2, "FileSystem"),
      Resource(3, "Network")>>

ResourceIds == {1, 2, 3}
ResourceNames == {"Database", "FileSystem"}
AllResources == {Resource(i, n) : i \in ResourceIds, n \in ResourceNames}
ResourceLists == SeqsUpTo(AllResources, MaxResources) \cup {ProgramResources}
TargetIds == ResourceIds \cup {999}

Absent == [some |-> FALSE, at |-> 0]
Present(k) == [some |-> TRUE, at |-> k]

\* Iterator::find from position k on: the first element the predicate holds
\* for; `at` is the position of the element the returned reference points to
RECURSIVE find_from(_, _, _)
find_from(rs, id, k) ==
    IF k > Len(rs) THEN Absent
    ELSE IF rs[k].id = id THEN Present(k)
    ELSE find_from(rs, id, k + 1)

\* a search that keeps the last match (rfind)
RECURSIVE find_last_from(_, _, _)
find_last_from(rs, id, k) ==
    IF k < 1 THEN Absent
    ELSE IF rs[k].id = id THEN Present(k)
    ELSE find_last_from(rs, id, k - 1)

find_resource_by_id_last(rs, id) == find_last_from(rs, id, Len(rs))

\* resources.iter().find(|res| res.id == target_id)
find_resource_by_id(rs, id) == find_from(rs, id, 1)

InitOption ==
    /\ ThreadProgIdle
    /\ BufferIdle /\ CopyIdle
    /\ ResultIdle
    /\ MemoryIdle
    /\ o_pc = "find"
    /\ resources \in ResourceLists
    /\ target_id \in TargetIds
    /\ found = Absent
    /\ processed = <<>>
    /\ o_out = <<>>

\* find_resource_by_id(&resources, target_id)
OptionFind ==
    /\ o_pc = "find"
    /\ found' = find_resource_by_id(resources, target_id)
    /\ o_pc' = "match"
    /\ UNCHANGED <<resources, target_id, processed, o_out, otherThanFind>>

\* match .. { Some(resource) => { resource.process() }, None => println!(..) }
OptionMatch ==
    /\ o_pc = "match"
    /\ IF found.some
       THEN /\ processed' = Append(processed, resources[found.at])
            /\ o_out' = Append(o_out, "Processing resource")
       ELSE /\ processed' = processed
            /\ o_out' = Append(o_out, "not found")
    /\ o_pc' = "done"
    /\ UNCHANGED <<resources, target_id, found, otherThanFind>>

NextOption ==
    \/ OptionFind
    \/ OptionMatch

SpecOption == InitOption /\ [][NextOption]_vars

(***************************************************************************)
(* C9: find_resource_by_id returns the first resource in list order whose  *)
(* id is target_id, and absent exactly when no resource has that id; for   *)
(* an absent id the caller runs only the absence branch and calls          *)
(* process() on no resource.                                               *)
(***************************************************************************)
Matches == {k \in 1..Len(resources) : resources[k].id = target_id}

C9_FindFirst ==
    o_pc \in {"match", "done"} =>
        /\ found.some <=> Matches # {}
        /\ found.some =>
               /\ found.at \in Matches
               /\ \A k \in Matches : found.at <= k
        /\ (o_pc = "done" /\ Matches = {}) =>
               processed = <<>> /\ o_out = <<"not found">>
        /\ (o_pc = "done" /\ Matches # {}) =>
               /\ Len(processed) = 1
               /\ processed[1].id = target_id
               /\ o_out = <<"Processing resource">>

\* the program's case: id 999 against the list with ids 1, 2, 3
C9_Witness ==
    /\ o_pc = "done"
    /\ resources = ProgramResources
    /\ target_id = 999
    /\ ~found.some
    /\ processed = <<>>


(***************************************************************************)
(* option_safe.rs: demonstrate_result_safety (option_safe.rs:117-151):     *)
(* try_create_resource and the three ways its callers take the Result,     *)
(* for every id in Ids and every name in Names.                            *)
(***************************************************************************)
\* ids are drawn from -MaxId..MaxId, and the ids of the program's calls
MaxId == 2

Ids == (-MaxId..MaxId) \cup {5, -1, 0}
Names == {"", "ValidResource", "InvalidResource"}

\* the three calls: the match at line 130, the match at line 141 and the
\* unwrap_or_else at line 147
MatchCall == "match"
MatchErrCall == "match_err"
UnwrapOrElseCall == "unwrap_or_else"
CallSites == {MatchCall, MatchErrCall, UnwrapOrElseCall}

Ok(id, name) == [ok |-> TRUE, id |-> id, name |-> name, err |-> ""]
Err(e) == [ok |-> FALSE, id |-> 0, name |-> "", err |-> e]

NoResource == [some |-> FALSE, id |-> 0, name |-> ""]
Held(id, name) == [some |-> TRUE, id |-> id, name |-> name]

\* one line of narration: Created, Processing, Destroyed, or a message
Entry(ev, text, id) == [ev |-> ev, text |-> text, id |-> id]

\* a check that lets id 0 through
try_create_resource_nonneg(id, name) ==
    IF id < 0
    THEN [result |-> Err("Invalid ID: must be positive"), out |-> <<>>]
    ELSE IF name = ""
    THEN [result |-> Err("Invalid name: cannot be empty"), out |-> <<>>]
    ELSE [result |-> Ok(id, name), out |-> <<Entry("Created", name, id)>>]

\* the Result, and what Resource::new printed while it was computed
try_create_resource(id, name) ==
    IF id <= 0
    THEN [result |-> Err("Invalid ID: must be positive"), out |-> <<>>]
    ELSE IF name = ""
    THEN [result |-> Err("Invalid name: cannot be empty"), out |-> <<>>]
    ELSE [result |-> Ok(id, name), out |-> <<Entry("Created", name, id)>>]

InitResult ==
    /\ ThreadProgIdle
    /\ BufferIdle /\ CopyIdle
    /\ OptionIdle
    /\ MemoryIdle
    /\ r_pc = "call"
    /\ r_site \in CallSites
    /\ r_id \in Ids
    /\ r_name \in Names
    /\ r_result = Err("")
    /\ r_resource = NoResource
    /\ r_log = <<>>

\* try_create_resource(id, name)
ResultCall ==
    /\ r_pc = "call"
    /\ LET t == try_create_resource(r_id, r_name) IN
       /\ r_result' = t.result
       /\ r_log' = r_log \o t.out
    /\ r_pc' = "handle"
    /\ UNCHANGED <<r_site, r_id, r_name, r_resource, otherThanResult>>

\* match .. { Ok(resource) => { .. resource.process() } }
ResultMatchOk ==
    /\ r_pc = "handle"
    /\ r_site \in {MatchCall, MatchErrCall}
    /\ r_result.ok
    /\ r_resource' = Held(r_result.id, r_result.name)
    /\ r_log' = r_log
                \o (IF r_site = MatchCall
                    THEN <<Entry("Successfully created resource", "", 0)>>
                    ELSE <<>>)
                \o <<Entry("Processing", r_result.name, r_result.id)>>
    /\ r_pc' = "drop"
    /\ UNCHANGED <<r_site, r_id, r_name, r_result, otherThanResult>>

\* match .. { Err(error) => println!(.., error) }
ResultMatchErr ==
    /\ r_pc = "handle"
    /\ r_site \in {MatchCall, MatchErrCall}
    /\ ~r_result.ok
    /\ r_log' = Append(r_log,
                       Entry(IF r_site = MatchCall
                             THEN "Failed to create resource"
                             ELSE "Creation failed", r_result.err, 0))
    /\ r_pc' = "done"
    /\ UNCHANGED <<r_site, r_id, r_name, r_result, r_resource,
                   otherThanResult>>

\* .unwrap_or_else(|_| Resource::new(1, "Fallback"))
ResultUnwrapOrElse ==
    /\ r_pc = "handle"
    /\ r_site = UnwrapOrElseCall
    /\ IF r_result.ok
       THEN /\ r_resource' = Held(r_result.id, r_result.name)
            /\ r_log' = r_log
       ELSE /\ r_resource' = Held(1, "Fallback")
            /\ r_log' = Append(r_log, Entry("Created", "Fallback", 1))
    /\ r_pc' = "process"
    /\ UNCHANGED <<r_site, r_id, r_name, r_result, otherThanResult>>

\* resource.process()
ResultProcess ==
    /\ r_pc = "process"
    /\ r_log' = Append(r_log,
                       Entry("Processing", r_resource.name, r_resource.id))
    /\ r_pc' = "drop"
    /\ UNCHANGED <<r_site, r_id, r_name, r_result, r_resource,
                   otherThanResult>>

\* the resource goes out of scope: Drop for Resource
ResultDrop ==
    /\ r_pc = "drop"
    /\ r_log' = Append(r_log, Entry("Destroyed", r_resource.name, 0))
    /\ r_resource' = NoResource
    /\ r_pc' = "done"
    /\ UNCHANGED <<r_site, r_id, r_name, r_result, otherThanResult>>

NextResult ==
    \/ ResultCall
    \/ ResultMatchOk
    \/ ResultMatchErr
    \/ ResultUnwrapOrElse
    \/ ResultProcess
    \/ ResultDrop

SpecResult == InitResult /\ [][NextResult]_vars

(***************************************************************************)
(* C13: try_create_resource(id, name) fails, and constructs no Resource,   *)
(* when id <= 0 or name is empty, the id being checked first; otherwise it *)
(* returns a Resource with that id and name.  The caller processes a       *)
(* resource only after it was constructed, and constructs the fallback     *)
(* only when the call failed.                                              *)
(***************************************************************************)
Logged(ev) == {k \in 1..Len(r_log) : r_log[k].ev = ev}

C13_ExplicitFailure ==
    r_pc \in {"handle", "process", "drop", "done"} =>
        /\ r_id <= 0 =>
               /\ ~r_result.ok
               /\ r_result.err = "Invalid ID: must be positive"
        /\ (r_id > 0 /\ r_name = "") =>
               /\ ~r_result.ok
               /\ r_result.err = "Invalid name: cannot be empty"
        /\ (r_id > 0 /\ r_name # "") =>
               /\ r_result = Ok(r_id, r_name)
               /\ Logged("Created") = {1}
               /\ r_log[1] = Entry("Created", r_name, r_id)
        /\ ~r_result.ok =>
               /\ \A k \in Logged("Created") :
                      /\ r_log[k] = Entry("Created", "Fallback", 1)
                      /\ r_site = UnwrapOrElseCall
               /\ r_site # UnwrapOrElseCall =>
                      Logged("Processing") \cup Logged("Destroyed") = {}
        /\ \A k \in Logged("Processing") :
               \E c \in Logged("Created") :
                   /\ c < k
                   /\ r_log[c].text = r_log[k].text
                   /\ r_log[c].id = r_log[k].id
        /\ Cardinality(Logged("Destroyed")) <= Cardinality(Logged("Created"))
        /\ r_pc = "done" =>
               Cardinality(Logged("Destroyed"))
                   = Cardinality(Logged("Created"))

\* the program's third call, try_create_resource(0, ""): the invalid-ID
\* failure, then the fallback is constructed, processed and destroyed
C13_Witness ==
    /\ r_pc = "done"
    /\ r_site = UnwrapOrElseCall
    /\ r_id = 0 /\ r_name = ""
    /\ r_result = Err("Invalid ID: must be positive")
    /\ r_log = <<Entry("Created", "Fallback", 1),
                 Entry("Processing", "Fallback", 1),
                 Entry("Destroyed", "Fallback", 0)>>

(***************************************************************************)
(* memory_safe.rs: main and the seven demonstrations it calls, statement   *)
(* by statement.  Program is the source as a list of statements; the       *)
(* actions below give each kind of statement Rust's meaning: a binding     *)
(* owns its value until it is moved from, and the bindings of a scope are  *)
(* dropped at its closing brace, the last declared first.                  *)
(***************************************************************************)
\* one statement: what it does, the binding it declares or uses, the binding
\* it reads from, the DataHolder's name and value, and its source line
I(op, var, src, name, value, line) ==
    [op |-> op, var |-> var, src |-> src, name |-> name, value |-> value,
     line |-> line]

\* the function with line 44 uncommented: data.print() after the move
OwnershipBodyUseAfterMove ==
    <<I("enter", "", "", "", 0, 176),
      I("new", "data", "holder", "safe", 42, 36),
      I("print", "data", "", "", 0, 37),
      I("move", "moved_data", "data", "", 0, 40),
      I("print", "moved_data", "", "", 0, 41),
      I("print", "data", "", "", 0, 44),
      I("println", "", "", "", 0, 46),
      I("exit", "", "", "", 0, 49)>>

OwnershipBody ==
    <<I("enter", "", "", "", 0, 176),
      I("new", "data", "holder", "safe", 42, 36),
      I("print", "data", "", "", 0, 37),
      I("move", "moved_data", "data", "", 0, 40),
      I("print", "moved_data", "", "", 0, 41),
      I("println", "", "", "", 0, 46),
      I("exit", "", "", "", 0, 49)>>

BorrowingBody ==
    <<I("enter", "", "", "", 0, 179),
      I("new", "data", "holder", "borrowed", 123, 52),
      I("borrow", "borrowed_ref", "data", "ref", 0, 55),
      I("print", "borrowed_ref", "", "", 0, 56),
      I("print", "data", "", "", 0, 57),
      I("new", "mutable_data", "holder", "mutable", 456, 60),
      I("enter", "", "", "", 0, 61),
      I("borrow", "mutable_ref", "mutable_data", "refmut", 0, 62),
      I("set", "mutable_ref", "", "", 999, 63),
      I("print", "mutable_ref", "", "", 0, 64),
      I("exit", "", "", "", 0, 68),
      I("print", "mutable_data", "", "", 0, 71),
      I("println", "", "", "", 0, 73),
      I("exit", "", "", "", 0, 74)>>

LifetimeBody ==
    <<I("enter", "", "", "", 0, 182),
      I("new", "long_lived", "holder", "long_lived", 789, 77),
      I("enter", "", "", "", 0, 79),
      I("new", "short_lived", "holder", "short_lived", 100, 80),
      I("exit", "", "", "", 0, 86),
      I("borrow", "reference_to_long_lived", "long_lived", "ref", 0, 79),
      I("print", "reference_to_long_lived", "", "", 0, 89),
      I("println", "", "", "", 0, 91),
      I("exit", "", "", "", 0, 92)>>

RcBody ==
    <<I("enter", "", "", "", 0, 185),
      I("new", "shared_data", "rc", "shared", 555, 97),
      I("enter", "", "", "", 0, 99),
      I("rc_clone", "another_ref", "shared_data", "", 0, 100),
      I("print", "another_ref", "", "", 0, 101),
      I("count", "shared_data", "", "", 0, 103),
      I("exit", "", "", "", 0, 106),
      I("count", "shared_data", "", "", 0, 108),
      I("print", "shared_data", "", "", 0, 109),
      I("println", "", "", "", 0, 112),
      I("exit", "", "", "", 0, 113)>>

BoxBody ==
    <<I("enter", "", "", "", 0, 188),
      I("new", "heap_data", "box", "heap_allocated", 333, 116),
      I("print", "heap_data", "", "", 0, 117),
      I("move", "moved_box", "heap_data", "", 0, 120),
      I("print", "moved_box", "", "", 0, 121),
      I("println", "", "", "", 0, 127),
      I("exit", "", "", "", 0, 128)>>

VectorBody ==
    <<I("enter", "", "", "", 0, 191),
      I("vec_new", "vec", "", "", 0, 131),
      I("push_new", "vec", "", "first", 1, 132),
      I("push_new", "vec", "", "second", 2, 133),
      I("iter_print", "vec", "", "", 0, 136),
      I("index_ref", "first_ref", "vec", "", 0, 141),
      I("print", "first_ref", "", "", 0, 146),
      I("push_new", "vec", "", "third", 3, 149),
      I("println", "", "", "", 0, 151),
      I("exit", "", "", "", 0, 152)>>

UnsafeBody ==
    <<I("enter", "", "", "", 0, 194),
      I("new", "data", "holder", "unsafe_demo", 777, 156),
      I("enter", "", "", "", 0, 160),
      I("borrow", "ptr", "data", "ptr", 0, 161),
      I("print", "ptr", "", "", 0, 165),
      I("exit", "", "", "", 0, 166),
      I("println", "", "", "", 0, 169),
      I("exit", "", "", "", 0, 170)>>

Println(line) == I("println", "", "", "", 0, line)

Program ==
    <<Println(173), Println(175)>> \o OwnershipBody
    \o <<Println(178)>> \o BorrowingBody
    \o <<Println(181)>> \o LifetimeBody
    \o <<Println(184)>> \o RcBody
    \o <<Println(187)>> \o BoxBody
    \o <<Println(190)>> \o VectorBody
    \o <<Println(193)>> \o UnsafeBody
    \o <<Println(196), Println(197), Println(198), Println(199),
         Println(200), Println(201), Println(202)>>

HolderNames ==
    {Program[i].name : i \in {j \in 1..Len(Program) :
                                  Program[j].op \in {"new", "push_new"}}}

Owning == {"holder", "box", "rc", "vec"}

\* a binding: its name, what it holds, the DataHolder it owns or points to,
\* the DataHolders of a Vec, the statement that declared it and the scope
\* it was declared in
Binding(var, kind, obj, elems, decl) ==
    [var |-> var, kind |-> kind, obj |-> obj, elems |-> elems, decl |-> decl,
     depth |-> m_depth]

Unborn == [value |-> 0, owners |-> 0, state |-> "unborn"]

InitMemory ==
    /\ ThreadProgIdle
    /\ BufferIdle /\ CopyIdle
    /\ OptionIdle /\ ResultIdle
    /\ m_pc = 1
    /\ m_depth = 0
    /\ m_env = <<>>
    /\ m_heap = [n \in HolderNames |-> Unborn]
    /\ m_log = <<>>
    /\ m_i = 0
    /\ m_fault = FALSE

Running == m_pc \in 1..Len(Program)
Cur == Program[m_pc]

\* the innermost binding of a name: name resolution
Lookup(var) ==
    LET hits == {k \in 1..Len(m_env) : m_env[k].var = var}
    IN  IF hits = {} THEN 0 ELSE CHOOSE k \in hits : \A j \in hits : j <= k

Event(ev, name, value, decl) ==
    [ev |-> ev, name |-> name, value |-> value, decl |-> decl,
     owner |-> IF decl = 0 THEN "" ELSE Program[decl].var,
     at |-> m_pc, line |-> Cur.line]

\* DataHolder::new: the narration and the value
Create(heap, name, value) ==
    [heap EXCEPT ![name] = [value |-> value, owners |-> 1, state |-> "live"]]

\* Drop for DataHolder
Destroy(heap, name) ==
    [heap EXCEPT ![name] = [@ EXCEPT !.owners = 0, !.state = "dead"]]

otherThanMemory == <<threadProgVars, bufferVars, copyVars, optionVars,
                     resultVars>>

\* println! of a line that narrates no DataHolder
MemPrintln ==
    /\ Running /\ Cur.op = "println"
    /\ m_pc' = m_pc + 1
    /\ UNCHANGED <<m_depth, m_env, m_heap, m_log, m_i, m_fault,
                   otherThanMemory>>

\* let var = DataHolder::new(..), Box::new(DataHolder::new(..)) or
\* Rc::new(DataHolder::new(..))
MemNew ==
    /\ Running /\ Cur.op = "new"
    /\ m_heap' = Create(m_heap, Cur.name, Cur.value)
    /\ m_log' = Append(m_log, Event("Created", Cur.name, Cur.value, m_pc))
    /\ m_env' = Append(m_env, Binding(Cur.var, Cur.src, Cur.name, <<>>, m_pc))
    /\ m_pc' = m_pc + 1
    /\ UNCHANGED <<m_depth, m_i, m_fault, otherThanMemory>>

\* let mut vec = Vec::new()
MemVecNew ==
    /\ Running /\ Cur.op = "vec_new"
    /\ m_env' = Append(m_env, Binding(Cur.var, "vec", "", <<>>, m_pc))
    /\ m_pc' = m_pc + 1
    /\ UNCHANGED <<m_depth, m_heap, m_log, m_i, m_fault, otherThanMemory>>

\* vec.push(DataHolder::new(..)): the Vec owns the new value
MemPushNew ==
    /\ Running /\ Cur.op = "push_new"
    /\ LET k == Lookup(Cur.var) IN
       /\ k # 0
       /\ m_heap' = Create(m_heap, Cur.name, Cur.value)
       /\ m_log' = Append(m_log, Event("Created", Cur.name, Cur.value,
                                       m_env[k].decl))
       /\ m_env' = [m_env EXCEPT ![k].elems = Append(@, Cur.name)]
    /\ m_pc' = m_pc + 1
    /\ UNCHANGED <<m_depth, m_i, m_fault, otherThanMemory>>

\* a move that leaves the old binding an owner too (a bitwise copy)
MemMoveCopy ==
    /\ Running /\ Cur.op = "move"
    /\ LET k == Lookup(Cur.src) IN
       /\ k # 0
       /\ m_env' = Append(m_env,
                          [m_env[k] EXCEPT !.var = Cur.var, !.decl = m_pc,
                                           !.depth = m_depth])
    /\ m_pc' = m_pc + 1
    /\ UNCHANGED <<m_depth, m_heap, m_log, m_i, m_fault, otherThanMemory>>

\* let var = src: ownership moves to var, src owns nothing any more
MemMove ==
    /\ Running /\ Cur.op = "move"
    /\ LET k == Lookup(Cur.src) IN
       /\ k # 0
       /\ m_env' = Append([m_env EXCEPT ![k].kind = "moved"],
                          [m_env[k] EXCEPT !.var = Cur.var, !.decl = m_pc,
                                           !.depth = m_depth])
    /\ m_pc' = m_pc + 1
    /\ UNCHANGED <<m_depth, m_heap, m_log, m_i, m_fault, otherThanMemory>>

\* let var = &src, &mut src, or a raw pointer to src: var owns nothing
MemBorrow ==
    /\ Running /\ Cur.op = "borrow"
    /\ LET k == Lookup(Cur.src) IN
       /\ k # 0
       /\ m_env' = Append(m_env, Binding(Cur.var, Cur.name, m_env[k].obj,
                                         <<>>, m_pc))
       /\ m_fault' = (m_fault \/ m_env[k].kind = "moved")
    /\ m_pc' = m_pc + 1
    /\ UNCHANGED <<m_depth, m_heap, m_log, m_i, otherThanMemory>>

\* let first_ref = &vec[0]
MemIndexRef ==
    /\ Running /\ Cur.op = "index_ref"
    /\ LET k == Lookup(Cur.src) IN
       /\ k # 0
       /\ Len(m_env[k].elems) > Cur.value
       /\ m_env' = Append(m_env, Binding(Cur.var, "ref",
                                         m_env[k].elems[Cur.value + 1],
                                         <<>>, m_pc))
    /\ m_pc' = m_pc + 1
    /\ UNCHANGED <<m_depth, m_heap, m_log, m_i, m_fault, otherThanMemory>>

\* let var = Rc::clone(&src): one more owner of the same value
MemRcClone ==
    /\ Running /\ Cur.op = "rc_clone"
    /\ LET k == Lookup(Cur.src) IN
       /\ k # 0
       /\ m_env' = Append(m_env, Binding(Cur.var, "rc", m_env[k].obj, <<>>,
                                         m_pc))
       /\ m_heap' = [m_heap EXCEPT ![m_env[k].obj].owners = @ + 1]
    /\ m_pc' = m_pc + 1
    /\ UNCHANGED <<m_depth, m_log, m_i, m_fault, otherThanMemory>>

\* var.print(), or the read through the raw pointer: a use of the value
MemPrint ==
    /\ Running /\ Cur.op = "print"
    /\ LET k == Lookup(Cur.var) IN
       /\ k # 0
       /\ m_log' = Append(m_log, Event("print", m_env[k].obj,
                                       m_heap[m_env[k].obj].value, 0))
       /\ m_fault' = (m_fault \/ m_env[k].kind = "moved"
                              \/ m_heap[m_env[k].obj].state # "live")
    /\ m_pc' = m_pc + 1
    /\ UNCHANGED <<m_depth, m_env, m_heap, m_i, otherThanMemory>>

\* mutable_ref.value = 999
MemSet ==
    /\ Running /\ Cur.op = "set"
    /\ LET k == Lookup(Cur.var) IN
       /\ k # 0
       /\ m_heap' = [m_heap EXCEPT ![m_env[k].obj].value = Cur.value]
    /\ m_pc' = m_pc + 1
    /\ UNCHANGED <<m_depth, m_env, m_log, m_i, m_fault, otherThanMemory>>

\* println!("Reference count: {}", Rc::strong_count(&var))
MemCount ==
    /\ Running /\ Cur.op = "count"
    /\ LET k == Lookup(Cur.var) IN
       /\ k # 0
       /\ m_log' = Append(m_log, Event("count", m_env[k].obj,
                                       m_heap[m_env[k].obj].owners, 0))
    /\ m_pc' = m_pc + 1
    /\ UNCHANGED <<m_depth, m_env, m_heap, m_i, m_fault, otherThanMemory>>

\* for item in &vec { item.print() }: one iteration, or the end of the loop
MemIterPrint ==
    /\ Running /\ Cur.op = "iter_print"
    /\ LET k == Lookup(Cur.var) IN
       /\ k # 0
       /\ IF m_i < Len(m_env[k].elems)
          THEN /\ m_log' = Append(m_log,
                       Event("print", m_env[k].elems[m_i + 1],
                             m_heap[m_env[k].elems[m_i + 1]].value, 0))
               /\ m_i' = m_i + 1
               /\ m_pc' = m_pc
          ELSE /\ m_log' = m_log
               /\ m_i' = 0
               /\ m_pc' = m_pc + 1
    /\ UNCHANGED <<m_depth, m_env, m_heap, m_fault, otherThanMemory>>

\* a function is called or a block opens: a new scope
MemEnter ==
    /\ Running /\ Cur.op = "enter"
    /\ m_depth' = m_depth + 1
    /\ m_pc' = m_pc + 1
    /\ UNCHANGED <<m_env, m_heap, m_log, m_i, m_fault, otherThanMemory>>

\* the scope has a binding left
ScopeHasBinding ==
    m_env # <<>> /\ m_env[Len(m_env)].depth = m_depth

DropLast == SubSeq(m_env, 1, Len(m_env) - 1)

\* a closing brace that destroys the elements of a Vec from the last to the
\* first
MemExitDropVecFromLast ==
    /\ Running /\ Cur.op = "exit"
    /\ ScopeHasBinding
    /\ LET b == m_env[Len(m_env)] IN
       CASE b.kind \in {"holder", "box"} ->
              /\ m_heap' = Destroy(m_heap, b.obj)
              /\ m_log' = Append(m_log, Event("Destroyed", b.obj, 0, b.decl))
              /\ m_env' = DropLast
         [] b.kind = "rc" ->
              /\ m_heap' = IF m_heap[b.obj].owners = 1
                           THEN Destroy(m_heap, b.obj)
                           ELSE [m_heap EXCEPT ![b.obj].owners = @ - 1]
              /\ m_log' = IF m_heap[b.obj].owners = 1
                          THEN Append(m_log,
                                      Event("Destroyed", b.obj, 0, b.decl))
                          ELSE m_log
              /\ m_env' = DropLast
         [] b.kind = "vec" /\ b.elems # <<>> ->
              /\ m_heap' = Destroy(m_heap, b.elems[Len(b.elems)])
              /\ m_log' = Append(m_log,
                                 Event("Destroyed", b.elems[Len(b.elems)], 0,
                                       b.decl))
              /\ m_env' = [m_env EXCEPT ![Len(m_env)].elems =
                                            SubSeq(@, 1, Len(@) - 1)]
         [] OTHER ->
              /\ m_env' = DropLast
              /\ UNCHANGED <<m_heap, m_log>>
    /\ UNCHANGED <<m_pc, m_depth, m_i, m_fault, otherThanMemory>>

\* the closing brace drops the scope's last declared binding: a binding that
\* owns a DataHolder destroys it, an Rc only when it is the last owner, a
\* Vec its elements from the first to the last; a reference or a binding
\* that was moved from destroys nothing
MemExitDrop ==
    /\ Running /\ Cur.op = "exit"
    /\ ScopeHasBinding
    /\ LET b == m_env[Len(m_env)] IN
       CASE b.kind \in {"holder", "box"} ->
              /\ m_heap' = Destroy(m_heap, b.obj)
              /\ m_log' = Append(m_log, Event("Destroyed", b.obj, 0, b.decl))
              /\ m_env' = DropLast
         [] b.kind = "rc" ->
              /\ m_heap' = IF m_heap[b.obj].owners = 1
                           THEN Destroy(m_heap, b.obj)
                           ELSE [m_heap EXCEPT ![b.obj].owners = @ - 1]
              /\ m_log' = IF m_heap[b.obj].owners = 1
                          THEN Append(m_log,
                                      Event("Destroyed", b.obj, 0, b.decl))
                          ELSE m_log
              /\ m_env' = DropLast
         [] b.kind = "vec" /\ b.elems # <<>> ->
              /\ m_heap' = Destroy(m_heap, Head(b.elems))
              /\ m_log' = Append(m_log,
                                 Event("Destroyed", Head(b.elems), 0, b.decl))
              /\ m_env' = [m_env EXCEPT ![Len(m_env)].elems = Tail(@)]
         [] OTHER ->
              /\ m_env' = DropLast
              /\ UNCHANGED <<m_heap, m_log>>
    /\ UNCHANGED <<m_pc, m_depth, m_i, m_fault, otherThanMemory>>

\* every binding of the scope is dropped: the function returns or the block
\* ends
MemExitLeave ==
    /\ Running /\ Cur.op = "exit"
    /\ ~ScopeHasBinding
    /\ m_depth' = m_depth - 1
    /\ m_pc' = m_pc + 1
    /\ UNCHANGED <<m_env, m_heap, m_log, m_i, m_fault, otherThanMemory>>

NextMemory ==
    \/ MemPrintln
    \/ MemNew
    \/ MemVecNew
    \/ MemPushNew
    \/ MemMove
    \/ MemBorrow
    \/ MemIndexRef
    \/ MemRcClone
    \/ MemPrint
    \/ MemSet
    \/ MemCount
    \/ MemIterPrint
    \/ MemEnter
    \/ MemExitDrop
    \/ MemExitLeave

SpecMemory == InitMemory /\ [][NextMemory]_vars

(***************************************************************************)
(* C10: every DataHolder that is constructed is destroyed exactly once,    *)
(* after its construction, at the closing brace of the scope of the        *)
(* binding that owns it then: the binding it was moved to and not the one  *)
(* it was moved from, the Vec it was pushed into, the last Rc that shares  *)
(* it.  No binding is used after it was moved from.                        *)
(***************************************************************************)
Narrated(ev, n) ==
    {k \in 1..Len(m_log) : m_log[k].ev = ev /\ m_log[k].name = n}

\* the closing brace of the scope statement i stands in, read off the source
RECURSIVE ClosingBrace(_, _)
ClosingBrace(j, open) ==
    IF j > Len(Program) THEN 0
    ELSE IF Program[j].op = "enter" THEN ClosingBrace(j + 1, open + 1)
    ELSE IF Program[j].op = "exit"
         THEN IF open = 0 THEN j ELSE ClosingBrace(j + 1, open - 1)
    ELSE ClosingBrace(j + 1, open)

ScopeEnd(i) == ClosingBrace(i + 1, 0)

\* the binding that owns each DataHolder when its scope ends
OwnerAtEnd ==
    [n \in HolderNames |->
        CASE n = "safe" -> "moved_data"
          [] n = "borrowed" -> "data"
          [] n = "mutable" -> "mutable_data"
          [] n = "long_lived" -> "long_lived"
          [] n = "short_lived" -> "short_lived"
          [] n = "shared" -> "shared_data"
          [] n = "heap_allocated" -> "moved_box"
          [] n \in {"first", "second", "third"} -> "vec"
          [] n = "unsafe_demo" -> "data"]

C10_DestroyedOnce ==
    /\ \A n \in HolderNames :
           /\ Cardinality(Narrated("Created", n)) <= 1
           /\ Cardinality(Narrated("Destroyed", n))
                  <= Cardinality(Narrated("Created", n))
           /\ \A d \in Narrated("Destroyed", n) :
                  /\ \A c \in Narrated("Created", n) : c < d
                  /\ m_log[d].owner = OwnerAtEnd[n]
                  /\ m_log[d].at = ScopeEnd(m_log[d].decl)
                  /\ Program[m_log[d].at].op = "exit"
           /\ m_pc > Len(Program) =>
                  /\ Cardinality(Narrated("Created", n)) = 1
                  /\ Cardinality(Narrated("Destroyed", n)) = 1
    /\ ~m_fault

\* the program has ended; the moved values went with their new owners
C10_Witness ==
    /\ m_pc = Len(Program) + 1
    /\ m_env = <<>>
    /\ \A n \in HolderNames : Cardinality(Narrated("Destroyed", n)) = 1
    /\ \E d \in Narrated("Destroyed", "safe") : m_log[d].line = 49
    /\ \E d \in Narrated("Destroyed", "heap_allocated") : m_log[d].line = 128
    /\ \E d \in Narrated("Destroyed", "shared") : m_log[d].line = 113

(***************************************************************************)
(* C11 as stated: of two DataHolders destroyed at the same closing brace,  *)
(* the one constructed first is destroyed last, the elements of the Vec    *)
(* included.                                                               *)
(***************************************************************************)
Destructions == {k \in 1..Len(m_log) : m_log[k].ev = "Destroyed"}

\* a was constructed before b
CreatedBefore(a, b) ==
    \E ca \in Narrated("Created", a), cb \in Narrated("Created", b) : ca < cb

\* destruction d1 is of a value constructed before the value of d2, and both
\* happen at the same closing brace
SameScopeInOrder(d1, d2) ==
    /\ m_log[d1].at = m_log[d2].at
    /\ CreatedBefore(m_log[d1].name, m_log[d2].name)

C11_ReverseOfConstruction ==
    \A d1, d2 \in Destructions : SameScopeInOrder(d1, d2) => d2 < d1

(***************************************************************************)
(* C11 amended: of two DataHolders destroyed at the same closing brace,    *)
(* those owned by different bindings are destroyed in the reverse of the   *)
(* order of their construction, and those owned by the same Vec in the     *)
(* order of their construction.                                            *)
(***************************************************************************)
C11_LocalsReverseVecForward ==
    \A d1, d2 \in Destructions :
        SameScopeInOrder(d1, d2) =>
            IF m_log[d1].decl = m_log[d2].decl THEN d1 < d2 ELSE d2 < d1

\* both functions have returned: "mutable" went before "borrowed" at line 74,
\* and "first", "second", "third" went in that order at line 152
C11_Witness ==
    /\ \E dm \in Narrated("Destroyed", "mutable"),
          db \in Narrated("Destroyed", "borrowed") :
           dm < db /\ m_log[dm].line = 74 /\ m_log[db].line = 74
    /\ \E d1 \in Narrated("Destroyed", "first"),
          d2 \in Narrated("Destroyed", "second"),
          d3 \in Narrated("Destroyed", "third") :
           /\ d1 < d2 /\ d2 < d3
           /\ m_log[d1].line = 152 /\ m_log[d3].line = 152

(***************************************************************************)
(* C12: once a value has been moved to another binding, no statement that  *)
(* runs uses the binding it was moved from, and the value has one owner:   *)
(* the binding it was moved to.                                            *)
(***************************************************************************)
\* the statements that use a binding, and the binding each one uses
UsesVar == {"print", "set", "count", "iter_print", "push_new"}
UsesSrc == {"move", "borrow", "index_ref", "rc_clone"}

Used(i) ==
    IF Program[i].op \in UsesVar THEN Program[i].var ELSE Program[i].src

\* the bindings that own DataHolder n outright
OwnersOf(n) ==
    {k \in 1..Len(m_env) : m_env[k].kind \in {"holder", "box"}
                             /\ m_env[k].obj = n}

FinalStats ==
    [size |-> 10, sum |-> 45, processing |-> FALSE,
     data |-> <<0, 1, 2, 3, 4, 5, 6, 7, 8, 9>>]

C15_FinalAndMonotone ==
    /\ mpc = "mutex_return" =>
           /\ printed # <<>>
           /\ printed[Len(printed)] = FinalStats
           /\ pc[Writer] = "done" /\ pc[Reader] = "done"
    /\ Len(printed) = 2 =>
           /\ printed[1].size <= printed[2].size
           /\ IsPrefix(printed[1].data, printed[2].data)

\* the reader's last print saw three values; the writer went on and main's
\* final print shows all ten
C15_Witness ==
    /\ mpc = "mutex_return"
    /\ Len(printed) = 2
    /\ printed[1].data = <<0, 1, 2>>
    /\ printed[2] = FinalStats

(***************************************************************************)
(* C16: the old values fetch_add returns to the five threads are pairwise  *)
(* different and are exactly 0..4 once all have run; exactly one thread    *)
(* sees 2 and stores true; after the joins the counter is 5 and the flag   *)
(* is true; the flag is never true while the counter is below 3.           *)
(***************************************************************************)
\* the threads whose fetch_add has returned
Fetched == {t \in AtomicThreads : pc[t] \in {"compare", "store", "done"}}

OldValues == {ti[t] : t \in Fetched}

C16_AtomicOldValues ==
    /\ \A t1, t2 \in Fetched : t1 # t2 => ti[t1] # ti[t2]
    /\ OldValues = 0..(a_counter - 1)
    /\ OldValues \subseteq {0, 1, 2, 3, 4}
    /\ \A t \in AtomicThreads : pc[t] = "store" => ti[t] = 2
    /\ a_flag => /\ a_counter >= 3
                 /\ \E t \in Fetched : ti[t] = 2 /\ pc[t] = "done"
    /\ mpc = "atomic_return" =>
           /\ Fetched = AtomicThreads
           /\ OldValues = {0, 1, 2, 3, 4}
           /\ Cardinality({t \in AtomicThreads : ti[t] = 2}) = 1
           /\ a_counter = 5
           /\ a_flag

\* all five are joined; the thread spawned last was the one that saw 2 and
\* the thread spawned first the one that saw 4
C16_Witness ==
    /\ mpc = "atomic_return"
    /\ a_counter = 5
    /\ a_flag
    /\ ti[T("atomic", 4)] = 2
    /\ ti[T("atomic", 0)] = 4

====
